---- MODULE Spec2Model ----
(***************************************************************************)
(* A model of critters-rs: the critical-CSS extraction engine              *)
(* (src/src/lib.rs) and the vendored DOM / selector layer (src/src/html).  *)
(*                                                                         *)
(* Strings are modelled as sequences of one-character strings, so that the *)
(* string operations of the code (split on whitespace, substring search,   *)
(* ASCII lower-casing, prefix tests) are computed and not assumed.         *)
(***************************************************************************)
EXTENDS Integers, Sequences, FiniteSets, TLC

\* ------------------------------------------------------------------ bounds

\* Number of elements below <body> in a generated document.
MaxElems == 2
\* Length of the selector list handed to calculate_styles_for_tree.
MaxSelectors == 2
\* Number of top-level rules of a generated stylesheet.
MaxRules == 3
\* Number of style and link elements in the head of a generated document.
MaxNodes == 2
\* Number of elements nested one inside the other below <body> in a chain.
MaxChain == 256
\* Number of paths locate_html_files finds.
MaxFiles == 3
\* Number of ancestors of an element a StyleBloom is rebuilt for on its own.
MaxRebuild == 4
\* The depth of the stack up to which StyleBloom::push is given any element.
MaxPush == 3
\* Number of blocks of an html file, a block being read or written at once.
MaxBlocks == 2

\* ----------------------------------------------------------------- strings

Nil == <<"\\nil">>

RECURSIVE SeqToSet(_)
SeqToSet(s) == IF s = <<>> THEN {} ELSE {Head(s)} \cup SeqToSet(Tail(s))

RECURSIVE FilterSeq(_, _)
\* The subsequence of s whose elements are in keep.
FilterSeq(s, keep) ==
    IF s = <<>> THEN <<>>
    ELSE (IF Head(s) \in keep THEN <<Head(s)>> ELSE <<>>) \o FilterSeq(Tail(s), keep)

RECURSIVE Reverse(_)
Reverse(s) == IF s = <<>> THEN <<>> ELSE Reverse(Tail(s)) \o <<Head(s)>>

\* The characters the model's strings are written with, in code order.
Chars == << " ", "\"", "'", "(", ")", ",", ".", "/", "1", ":", "D", "O", "S", "a", "b",
            "c", "d", "e", "f", "g", "h", "i", "j", "k", "l", "m", "n", "o", "p", "r",
            "s", "t", "u", "v", "x", "y" >>

CharCode(c) == CHOOSE i \in 1..Len(Chars) : Chars[i] = c

\* u8::to_ascii_lowercase on the letters in use.
LowerChar(c) == CASE c = "D" -> "d" [] c = "O" -> "o" [] c = "S" -> "s" [] OTHER -> c

to_ascii_lowercase(s) == [i \in 1..Len(s) |-> LowerChar(s[i])]

starts_with(s, prefix) ==
    /\ Len(prefix) <= Len(s)
    /\ SubSeq(s, 1, Len(prefix)) = prefix

ends_with(s, suffix) ==
    /\ Len(suffix) <= Len(s)
    /\ SubSeq(s, Len(s) - Len(suffix) + 1, Len(s)) = suffix

\* str::contains: needle occurs as a contiguous substring of hay.
contains(hay, needle) ==
    \E i \in 0..(Len(hay) - Len(needle)) : SubSeq(hay, i + 1, i + Len(needle)) = needle

RECURSIVE SplitOn(_, _, _)
\* str::split(sep): every piece between separators, empty pieces included.
SplitOn(s, seps, cur) ==
    IF s = <<>> THEN <<cur>>
    ELSE IF Head(s) \in seps THEN <<cur>> \o SplitOn(Tail(s), seps, <<>>)
    ELSE SplitOn(Tail(s), seps, Append(cur, Head(s)))

\* str::split_whitespace: the non-empty pieces between whitespace.
split_whitespace(s) == SelectSeq(SplitOn(s, {" "}, <<>>), LAMBDA t : t /= <<>>)

RECURSIVE Flatten(_)
Flatten(ss) == IF ss = <<>> THEN <<>> ELSE Head(ss) \o Flatten(Tail(ss))

RECURSIVE trim_start(_)
trim_start(s) == IF s /= <<>> /\ Head(s) = " " THEN trim_start(Tail(s)) ELSE s

\* str::trim: the string without its leading and trailing whitespace.
trim(s) == Reverse(trim_start(Reverse(trim_start(s))))

\* Names used by the documents and stylesheets of the model.
S_html == <<"h", "t", "m", "l">>
S_head == <<"h", "e", "a", "d">>
S_body == <<"b", "o", "d", "y">>
S_div == <<"d", "i", "v">>
S_p == <<"p">>
S_svg == <<"s", "v", "g">>
S_foreignObject == <<"f", "o", "r", "e", "i", "g", "n", "O", "b", "j", "e", "c", "t">>
S_class == <<"c", "l", "a", "s", "s">>
S_id == <<"i", "d">>
S_style == <<"s", "t", "y", "l", "e">>
S_lang == <<"l", "a", "n", "g">>

S_a == <<"a">>
S_b == <<"b">>
S_i == <<"i">>
S_x == <<"x">>

\* ------------------------------------------------------------- attributes

\* IndexMap::insert: an existing key keeps its place and takes the new value,
\* a new key goes to the end.
IndexMap_insert(map, key, value) ==
    IF \E k \in 1..Len(map) : map[k].local = key
    THEN [k \in 1..Len(map) |->
            IF map[k].local = key THEN [local |-> key, value |-> value] ELSE map[k]]
    ELSE Append(map, [local |-> key, value |-> value])

RECURSIVE IndexMap_collect(_, _)
IndexMap_collect(pairs, map) ==
    IF pairs = <<>> THEN map
    ELSE IndexMap_collect(Tail(pairs), IndexMap_insert(map, Head(pairs)[1], Head(pairs)[2]))

\* Attributes::get (null namespace): the value, or Nil.
Attributes_get(attrs, name) ==
    IF \E k \in 1..Len(attrs.map) : attrs.map[k].local = name
    THEN (attrs.map[CHOOSE k \in 1..Len(attrs.map) : attrs.map[k].local = name]).value
    ELSE Nil

Attributes_contains(attrs, name) == \E k \in 1..Len(attrs.map) : attrs.map[k].local = name

\* Attributes::keys: the local names in map order.
Attributes_keys(attrs) == [k \in 1..Len(attrs.map) |-> attrs.map[k].local]

\* Attributes::new: collects the pairs and precomputes the class list by
\* splitting the class value on selector whitespace (empty pieces are kept).
Attributes_new(pairs) ==
    LET map == IndexMap_collect(pairs, <<>>)
        probe == [map |-> map, class_list |-> <<>>]
    IN [map |-> map,
        class_list |-> IF Attributes_contains(probe, S_class)
                       THEN SplitOn(Attributes_get(probe, S_class), {" "}, <<>>)
                       ELSE <<>>]

\* Attributes::insert
Attributes_insert(attrs, name, value) ==
    [attrs EXCEPT !.map = IndexMap_insert(@, name, value)]

\* Attributes::remove: IndexMap::swap_remove, the last entry takes the place
\* of the removed one.
Attributes_remove(attrs, name) ==
    IF ~Attributes_contains(attrs, name) THEN attrs
    ELSE LET k == CHOOSE j \in 1..Len(attrs.map) : attrs.map[j].local = name
             n == Len(attrs.map)
         IN [attrs EXCEPT !.map = [j \in 1..(n - 1) |-> IF j = k THEN attrs.map[n] ELSE attrs.map[j]]]

\* Attributes::get_mut gives a reference to the value of an attribute that is
\* there; the value is assigned through it.
Attributes_get_mut_assign(attrs, name, value) ==
    IF Attributes_contains(attrs, name)
    THEN [attrs EXCEPT !.map = IndexMap_insert(@, name, value)]
    ELSE attrs

\* Attributes::entry gives the map's entry; or_insert fills a vacant one and
\* leaves an occupied one alone.
Attributes_entry_or_insert(attrs, name, value) ==
    IF Attributes_contains(attrs, name) THEN attrs
    ELSE [attrs EXCEPT !.map = IndexMap_insert(@, name, value)]

\* Attributes::has_class with CaseSensitivity::CaseSensitive.
Attributes_has_class(attrs, name) == \E k \in 1..Len(attrs.class_list) : attrs.class_list[k] = name

\* -------------------------------------------------------------- documents

\* A document is a function from node ids 1..n to element records; parent 0 is
\* the Document node.  Children are ordered by id.
Element(parent, ns, local, pairs) ==
    [parent |-> parent, ns |-> ns, local |-> local, attributes |-> Attributes_new(pairs)]

\* The kinds of element a generated document places below <body>.
ElementChoices ==
    { [ns |-> "html", local |-> S_div, pairs |-> << <<S_class, S_a>> >>],
      [ns |-> "html", local |-> S_p,
       pairs |-> << <<S_id, S_i>>, <<S_class, <<"a", " ", "b">> >>, <<S_lang, <<"D">> >> >>],
      [ns |-> "html", local |-> S_a, pairs |-> << << <<"h", "r", "e", "f">>, S_x >> >>],
      [ns |-> "svg", local |-> S_foreignObject, pairs |-> <<>>] }

\* The elements every parsed document has, in document order.
FixedElements == <<S_html, S_head, S_body>>
HtmlId == CHOOSE i \in 1..Len(FixedElements) : FixedElements[i] = S_html
HeadId == CHOOSE i \in 1..Len(FixedElements) : FixedElements[i] = S_head
BodyId == CHOOSE i \in 1..Len(FixedElements) : FixedElements[i] = S_body

\* html > (head, body); the elements 4..3+n hang below body, each under body
\* or under an earlier element.
DomOf(n, parents, labels) ==
    [i \in 1..(BodyId + n) |->
        CASE i = HtmlId -> Element(0, "html", S_html, <<>>)
          [] i = HeadId -> Element(HtmlId, "html", S_head, <<>>)
          [] i = BodyId -> Element(HtmlId, "html", S_body, <<>>)
          [] OTHER -> Element(parents[i], labels[i].ns, labels[i].local, labels[i].pairs)]

DomsOfSize(n) ==
    { DomOf(n, parents, labels) :
        parents \in { f \in [(BodyId + 1)..(BodyId + n) -> BodyId..(BodyId + n)] :
                        \A i \in DOMAIN f : f[i] < i },
        labels \in [(BodyId + 1)..(BodyId + n) -> ElementChoices] }

Doms == UNION { DomsOfSize(n) : n \in 0..MaxElems }

Nodes(dom) == DOMAIN dom

\* Element::parent_element: 0 when the parent is the Document.
parent_element(dom, e) == dom[e].parent

RECURSIVE IdsFrom(_, _)
IdsFrom(i, n) == IF i > n THEN <<>> ELSE <<i>> \o IdsFrom(i + 1, n)

\* NodeRef::children restricted to elements, in document order.
children(dom, e) ==
    FilterSeq(IdsFrom(1, Len(dom)), { j \in Nodes(dom) : dom[j].parent = e })

RECURSIVE ancestors(_, _)
\* The ancestor elements of e, nearest first.
ancestors(dom, e) ==
    IF dom[e].parent = 0 THEN <<>> ELSE <<dom[e].parent>> \o ancestors(dom, dom[e].parent)

RECURSIVE inclusive_descendants(_, _)
RECURSIVE descend_all(_, _)
\* NodeRef::inclusive_descendants restricted to elements, in document order.
inclusive_descendants(dom, e) == <<e>> \o descend_all(dom, children(dom, e))
descend_all(dom, es) ==
    IF es = <<>> THEN <<>>
    ELSE inclusive_descendants(dom, Head(es)) \o descend_all(dom, Tail(es))

\* Element::prev_sibling_element: 0 when there is none.
prev_sibling_element(dom, e) ==
    LET sibs == { j \in Nodes(dom) : dom[j].parent = dom[e].parent /\ j < e }
    IN IF sibs = {} \/ dom[e].parent = 0 THEN 0
       ELSE CHOOSE j \in sibs : \A k \in sibs : k <= j

\* Element::next_sibling_element: 0 when there is none.
next_sibling_element(dom, e) ==
    LET sibs == { j \in Nodes(dom) : dom[j].parent = dom[e].parent /\ j > e }
    IN IF sibs = {} \/ dom[e].parent = 0 THEN 0
       ELSE CHOOSE j \in sibs : \A k \in sibs : j <= k

is_html_element_in_html_document(dom, e) == dom[e].ns = "html"

is_root(dom, e) == dom[e].parent = 0

\* -------------------------------------------------------------- selectors

\* A simple selector (selectors::parser::Component).  name is the local name,
\* id, class or attribute name as written; lower_name its ASCII lower-casing.
\* An attribute selector also has a namespace constraint (ns: "" for none,
\* "*" for any), an operator, the value it expects, the way the value is
\* compared and whether the selector can match at all; the other components
\* leave these at "", "Exists", the empty string, "CaseSensitive" and FALSE.
Component(type, name) ==
    [type |-> type, name |-> name, lower_name |-> to_ascii_lowercase(name),
     ns |-> "", operator |-> "Exists", value |-> <<>>,
     case_sensitivity |-> "CaseSensitive", never_matches |-> FALSE]

\* The attributes whose values an HTML document compares without regard to
\* ASCII case.
ascii_case_insensitive_html_attributes ==
    { <<"a", "c", "c", "e", "p", "t">>,
      <<"a", "c", "c", "e", "p", "t", "-", "c", "h", "a", "r", "s", "e", "t">>,
      <<"a", "l", "i", "g", "n">>, <<"a", "l", "i", "n", "k">>, <<"a", "x", "i", "s">>,
      <<"b", "g", "c", "o", "l", "o", "r">>, <<"c", "h", "a", "r", "s", "e", "t">>,
      <<"c", "h", "e", "c", "k", "e", "d">>, <<"c", "l", "e", "a", "r">>,
      <<"c", "o", "d", "e", "t", "y", "p", "e">>, <<"c", "o", "l", "o", "r">>,
      <<"c", "o", "m", "p", "a", "c", "t">>, <<"d", "e", "c", "l", "a", "r", "e">>,
      <<"d", "e", "f", "e", "r">>, <<"d", "i", "r">>,
      <<"d", "i", "r", "e", "c", "t", "i", "o", "n">>,
      <<"d", "i", "s", "a", "b", "l", "e", "d">>, <<"e", "n", "c", "t", "y", "p", "e">>,
      <<"f", "a", "c", "e">>, <<"f", "r", "a", "m", "e">>,
      <<"h", "r", "e", "f", "l", "a", "n", "g">>,
      <<"h", "t", "t", "p", "-", "e", "q", "u", "i", "v">>, <<"l", "a", "n", "g">>,
      <<"l", "a", "n", "g", "u", "a", "g", "e">>, <<"l", "i", "n", "k">>,
      <<"m", "e", "d", "i", "a">>, <<"m", "e", "t", "h", "o", "d">>,
      <<"m", "u", "l", "t", "i", "p", "l", "e">>, <<"n", "o", "h", "r", "e", "f">>,
      <<"n", "o", "r", "e", "s", "i", "z", "e">>, <<"n", "o", "s", "h", "a", "d", "e">>,
      <<"n", "o", "w", "r", "a", "p">>, <<"r", "e", "a", "d", "o", "n", "l", "y">>,
      <<"r", "e", "l">>, <<"r", "e", "v">>, <<"r", "u", "l", "e", "s">>,
      <<"s", "c", "o", "p", "e">>, <<"s", "c", "r", "o", "l", "l", "i", "n", "g">>,
      <<"s", "e", "l", "e", "c", "t", "e", "d">>, <<"s", "h", "a", "p", "e">>,
      <<"t", "a", "r", "g", "e", "t">>, <<"t", "e", "x", "t">>, <<"t", "y", "p", "e">>,
      <<"v", "a", "l", "i", "g", "n">>, <<"v", "a", "l", "u", "e", "t", "y", "p", "e">>,
      <<"v", "l", "i", "n", "k">> }

\* AttributeFlags::to_case_sensitivity: the flag written in the selector ("i",
\* "s" or none) decides; without a flag the attribute's name does.
to_case_sensitivity(flags, local_name_lower, have_namespace) ==
    CASE flags = "s" -> "ExplicitCaseSensitive"
      [] flags = "i" -> "AsciiCaseInsensitive"
      [] OTHER ->
           IF ~have_namespace /\ local_name_lower \in ascii_case_insensitive_html_attributes
           THEN "AsciiCaseInsensitiveIfInHtmlElementInHtmlDocument"
           ELSE "CaseSensitive"

\* ParsedCaseSensitivity::to_unconditional
to_unconditional(case_sensitivity, is_html_element_in_html_document_) ==
    CASE case_sensitivity \in {"CaseSensitive", "ExplicitCaseSensitive"} -> "CaseSensitive"
      [] case_sensitivity = "AsciiCaseInsensitive" -> "AsciiCaseInsensitive"
      [] case_sensitivity = "AsciiCaseInsensitiveIfInHtmlElementInHtmlDocument" ->
           IF is_html_element_in_html_document_ THEN "AsciiCaseInsensitive"
           ELSE "CaseSensitive"

\* The parser's never_matches: ~= with an empty value or one with whitespace
\* in it, and ^=, *= and $= with an empty value.
attr_never_matches(operator, value) ==
    CASE operator = "Includes" -> value = <<>> \/ \E k \in 1..Len(value) : value[k] = " "
      [] operator \in {"Prefix", "Substring", "Suffix"} -> value = <<>>
      [] OTHER -> FALSE

\* [name op value flags] (Component::AttributeInNoNamespace, for a lower-case
\* name without a namespace) and [ns|name op value flags]
\* (Component::AttributeOther).
AttrComponent(type, ns, name, operator, value, flags) ==
    [Component(type, name) EXCEPT
       !.ns = ns, !.operator = operator, !.value = value,
       !.case_sensitivity = to_case_sensitivity(flags, to_ascii_lowercase(name), ns /= ""),
       !.never_matches = attr_never_matches(operator, value)]

\* A complex selector: its compounds from the rightmost (the key compound) to
\* the leftmost, each compound in written order; combinators[k] stands between
\* compounds[k] and compounds[k + 1].
Selector1(c1) == [compounds |-> <<c1>>, combinators |-> <<>>]
Selector2(c1, comb, c2) == [compounds |-> <<c1, c2>>, combinators |-> <<comb>>]
Selector3(c1, comb1, c2, comb2, c3) ==
    [compounds |-> <<c1, c2, c3>>, combinators |-> <<comb1, comb2>>]

\* Selector::iter: the simple selectors of the rightmost compound.
Selector_iter(selector) == selector.compounds[1]

\* CaseSensitivity::eq
CaseSensitivity_eq(case_sensitivity, a, b) ==
    IF case_sensitivity = "AsciiCaseInsensitive"
    THEN to_ascii_lowercase(a) = to_ascii_lowercase(b)
    ELSE a = b

\* AttrSelectorOperation::eval_str: the operator on the element's value and
\* the expected one, compared as case_sensitivity says.
eval_str(operator, case_sensitivity, expected, value) ==
    CASE operator = "Exists" -> TRUE
      [] operator = "Equal" -> CaseSensitivity_eq(case_sensitivity, value, expected)
      [] operator = "Prefix" ->
            /\ Len(value) >= Len(expected)
            /\ CaseSensitivity_eq(case_sensitivity, SubSeq(value, 1, Len(expected)), expected)
      [] operator = "Suffix" ->
            /\ Len(value) >= Len(expected)
            /\ CaseSensitivity_eq(case_sensitivity,
                  SubSeq(value, Len(value) - Len(expected) + 1, Len(value)), expected)
      [] operator = "Substring" ->
            IF case_sensitivity = "AsciiCaseInsensitive"
            THEN contains(to_ascii_lowercase(value), to_ascii_lowercase(expected))
            ELSE contains(value, expected)
      [] operator = "Includes" ->
            \E piece \in SeqToSet(SplitOn(value, {" "}, <<>>)) :
                CaseSensitivity_eq(case_sensitivity, piece, expected)
      [] operator = "DashMatch" ->
            \/ CaseSensitivity_eq(case_sensitivity, value, expected)
            \/ /\ Len(value) > Len(expected)
               /\ value[Len(expected) + 1] = "-"
               /\ CaseSensitivity_eq(case_sensitivity, SubSeq(value, 1, Len(expected)), expected)

\* Element::attr_matches: the attributes of the model are all in the null
\* namespace.
attr_matches(dom, e, ns, local_name, operator, case_sensitivity, expected) ==
    LET attrs == dom[e].attributes IN
    IF ns = "*"
    THEN \E k \in 1..Len(attrs.map) :
            /\ attrs.map[k].local = local_name
            /\ eval_str(operator, case_sensitivity, expected, attrs.map[k].value)
    ELSE /\ ns = ""
         /\ Attributes_contains(attrs, local_name)
         /\ eval_str(operator, case_sensitivity, expected, Attributes_get(attrs, local_name))

\* Element::match_non_ts_pseudo_class: the pseudo-class by its name.
match_non_ts_pseudo_class(dom, e, pseudo) ==
    IF pseudo \in {<<"a", "n", "y", "-", "l", "i", "n", "k">>, <<"l", "i", "n", "k">>}
    THEN /\ dom[e].ns = "html"
         /\ dom[e].local \in {S_a, <<"a", "r", "e", "a">>, <<"l", "i", "n", "k">>}
         /\ Attributes_contains(dom[e].attributes, <<"h", "r", "e", "f">>)
    ELSE FALSE

\* matching::matches_simple_selector.  There is no branch for the components
\* the model does not build (negation, nth-child and of-type, :empty, :scope,
\* namespaces of element names).
matches_simple_selector(dom, c, e) ==
    CASE c.type = "LocalName" ->
            dom[e].local = (IF is_html_element_in_html_document(dom, e)
                            THEN c.lower_name ELSE c.name)
      [] c.type = "ID" ->
            /\ Attributes_contains(dom[e].attributes, S_id)
            /\ Attributes_get(dom[e].attributes, S_id) = c.name
      [] c.type = "Class" ->
            c.name /= <<>> /\ Attributes_has_class(dom[e].attributes, c.name)
      [] c.type = "AttributeInNoNamespaceExists" ->
            Attributes_contains(dom[e].attributes,
                                IF is_html_element_in_html_document(dom, e)
                                THEN c.lower_name ELSE c.name)
      [] c.type = "ExplicitUniversalType" -> TRUE
      [] c.type = "Root" -> is_root(dom, e)
      [] c.type = "AttributeInNoNamespace" ->
            /\ ~c.never_matches
            /\ attr_matches(dom, e, "", c.name, c.operator,
                            to_unconditional(c.case_sensitivity,
                                             is_html_element_in_html_document(dom, e)),
                            c.value)
      [] c.type = "AttributeOther" ->
            /\ ~c.never_matches
            /\ attr_matches(dom, e, c.ns,
                            IF is_html_element_in_html_document(dom, e)
                            THEN c.lower_name ELSE c.name,
                            c.operator,
                            to_unconditional(c.case_sensitivity,
                                             is_html_element_in_html_document(dom, e)),
                            c.value)
      [] c.type = "NonTSPseudoClass" -> match_non_ts_pseudo_class(dom, e, c.name)
      [] c.type = "FirstChild" -> prev_sibling_element(dom, e) = 0
      [] c.type = "LastChild" -> next_sibling_element(dom, e) = 0
      [] c.type = "OnlyChild" ->
            prev_sibling_element(dom, e) = 0 /\ next_sibling_element(dom, e) = 0

matches_compound(dom, compound, e) ==
    \A k \in 1..Len(compound) : matches_simple_selector(dom, compound[k], e)

RECURSIVE matches_complex_selector(_, _, _, _)
\* matching::matches_complex_selector: compound k against e, then the rest of
\* the selector against the element the combinator leads to.
matches_complex_selector(dom, selector, k, e) ==
    /\ matches_compound(dom, selector.compounds[k], e)
    /\ \/ k = Len(selector.compounds)
       \/ /\ k < Len(selector.compounds)
          /\ LET comb == selector.combinators[k] IN
             CASE comb = "Child" ->
                    /\ parent_element(dom, e) /= 0
                    /\ matches_complex_selector(dom, selector, k + 1, parent_element(dom, e))
               [] comb = "Descendant" ->
                    \E a \in SeqToSet(ancestors(dom, e)) :
                        matches_complex_selector(dom, selector, k + 1, a)
               [] comb = "NextSibling" ->
                    /\ prev_sibling_element(dom, e) /= 0
                    /\ matches_complex_selector(dom, selector, k + 1, prev_sibling_element(dom, e))
               [] OTHER -> FALSE

\* Selector::matches: full matching without a bloom filter.
Selector_matches(dom, selector, e) == matches_complex_selector(dom, selector, 1, e)

\* NodeRef::select(..).count() > 0 / select_first(..).is_ok(): some element of
\* the inclusive subtree of root matches.
select_any(dom, root, selector) ==
    \E e \in SeqToSet(inclusive_descendants(dom, root)) : Selector_matches(dom, selector, e)

\* ------------------------------------------------------------ bloom filter

\* selectors::bloom: the filter has 2^KEY_SIZE eight-bit counters and is keyed
\* by the low 24 bits of a hash.
KEY_SIZE == 12
COUNTER_MAX == 255
KEY_MASK == 2 ^ KEY_SIZE - 1
BLOOM_HASH_MASK == 2 ^ (2 * KEY_SIZE) - 1

\* Namespace URLs, as strings.
NamespaceUrl(ns) == IF ns = "html" THEN <<"x">> \o S_html ELSE <<"/">> \o S_svg

RECURSIVE HashFold(_, _)
HashFold(s, h) ==
    IF s = <<>> THEN h
    ELSE HashFold(Tail(s), (h * 31 + CharCode(Head(s))) % (BLOOM_HASH_MASK + 1))

\* Atom::get_hash: a u32 hash of the string.
get_hash(s) == HashFold(s, 7)

hash1(hash) == hash % (KEY_MASK + 1)
hash2(hash) == (hash \div (KEY_MASK + 1)) % (KEY_MASK + 1)

\* A filter is the function from the slots with a non-zero counter to it.
BloomFilter_new == [slot \in {} |-> 0]

counter(filter, slot) == IF slot \in DOMAIN filter THEN filter[slot] ELSE 0

\* CountingBloomFilter::adjust_slot: a counter that reached 0xff stays there.
adjust_slot(filter, slot, increment) ==
    LET old == counter(filter, slot)
        new == IF old = COUNTER_MAX THEN old
               ELSE IF increment THEN old + 1 ELSE old - 1
        touched == [t \in DOMAIN filter \cup {slot} |-> IF t = slot THEN new ELSE filter[t]]
    IN [t \in { u \in DOMAIN touched : touched[u] /= 0 } |-> touched[t]]

insert_hash(filter, hash) ==
    adjust_slot(adjust_slot(filter, hash1(hash), TRUE), hash2(hash), TRUE)

\* A removal that forgets the second counter of the hash.
remove_hash_first_only(filter, hash) == adjust_slot(filter, hash1(hash), FALSE)

remove_hash(filter, hash) ==
    adjust_slot(adjust_slot(filter, hash1(hash), FALSE), hash2(hash), FALSE)

might_contain_hash(filter, hash) ==
    counter(filter, hash1(hash)) /= 0 /\ counter(filter, hash2(hash)) /= 0

\* filter::is_attr_name_excluded_from_filter
is_attr_name_excluded_from_filter(name) == name \in {S_class, S_id, S_style}

\* filter::each_relevant_element_hash: the hashes, in the order f is called.
each_relevant_element_hash(dom, e) ==
    LET attrs == dom[e].attributes
        keys == Attributes_keys(attrs)
    IN <<get_hash(dom[e].local), get_hash(NamespaceUrl(dom[e].ns))>>
       \o (IF Attributes_contains(attrs, S_id)
           THEN <<get_hash(Attributes_get(attrs, S_id))>> ELSE <<>>)
       \o [k \in 1..Len(attrs.class_list) |-> get_hash(attrs.class_list[k])]
       \o [k \in 1..Len(SelectSeq(keys, LAMBDA n : ~is_attr_name_excluded_from_filter(n))) |->
             get_hash(SelectSeq(keys, LAMBDA n : ~is_attr_name_excluded_from_filter(n))[k])]

StyleBloom_new == [filter |-> BloomFilter_new, elements |-> <<>>, pushed_hashes |-> <<>>]

traversal_depth(bloom) == Len(bloom.elements)

RECURSIVE insert_all(_, _)
insert_all(filter, hashes) ==
    IF hashes = <<>> THEN filter ELSE insert_all(insert_hash(filter, Head(hashes)), Tail(hashes))

\* StyleBloom::push_internal
push_internal(bloom, dom, e) ==
    LET hashes == each_relevant_element_hash(dom, e)
    IN [filter |-> insert_all(bloom.filter, hashes),
        elements |-> Append(bloom.elements, [element |-> e, num_hashes |-> Len(hashes)]),
        pushed_hashes |-> bloom.pushed_hashes \o hashes]

\* The debug assertion of StyleBloom::push: the first element pushed has no
\* parent element.
push_assertion(bloom, dom, e) == bloom.elements = <<>> => parent_element(dom, e) = 0

StyleBloom_push(bloom, dom, e) == push_internal(bloom, dom, e)

RECURSIVE remove_last(_, _, _)
\* The loop of StyleBloom::pop: num_hashes times, pop a pushed hash and remove it.
remove_last(filter, pushed, n) ==
    IF n = 0 \/ pushed = <<>> THEN [filter |-> filter, pushed_hashes |-> pushed]
    ELSE remove_last(remove_hash(filter, pushed[Len(pushed)]),
                     SubSeq(pushed, 1, Len(pushed) - 1), n - 1)

\* StyleBloom::pop: nothing changes on an empty stack.
StyleBloom_pop(bloom) ==
    IF bloom.elements = <<>> THEN bloom
    ELSE LET top == bloom.elements[Len(bloom.elements)]
             r == remove_last(bloom.filter, bloom.pushed_hashes, top.num_hashes)
         IN [filter |-> r.filter,
             elements |-> SubSeq(bloom.elements, 1, Len(bloom.elements) - 1),
             pushed_hashes |-> r.pushed_hashes]

RECURSIVE pop_to_depth(_, _)
\* while bloom.traversal_depth() > depth { bloom.pop(); }
pop_to_depth(bloom, depth) ==
    IF traversal_depth(bloom) > depth THEN pop_to_depth(StyleBloom_pop(bloom), depth) ELSE bloom

RECURSIVE push_all(_, _, _)
\* The loop of rebuild: push each element in turn.  The elements come from
\* the root down, so the assertion of push holds for the first of them, the
\* only one it is about.
push_all(bloom, dom, es) ==
    IF es = <<>> \/ ~push_assertion(bloom, dom, Head(es)) THEN bloom
    ELSE push_all(StyleBloom_push(bloom, dom, Head(es)), dom, Tail(es))

\* StyleBloom::clear: no frames, no pushed hashes and every counter of the
\* filter at zero, the stuck ones too.
StyleBloom_clear(bloom) ==
    [bloom EXCEPT !.elements = <<>>, !.filter = BloomFilter_new, !.pushed_hashes = <<>>]

\* A rebuild that pushes the element itself after its ancestors.
rebuild_inclusive(bloom, dom, e) ==
    push_all(StyleBloom_clear(bloom), dom, Reverse(ancestors(dom, e)) \o <<e>>)

\* StyleBloom::rebuild: clear, then push the ancestors of e from the root down.
rebuild(bloom, dom, e) == push_all(StyleBloom_clear(bloom), dom, Reverse(ancestors(dom, e)))

\* StyleBloom::assert_complete: the frames are exactly the ancestors of e.
assert_complete(bloom, dom, e) ==
    [k \in 1..Len(bloom.elements) |-> bloom.elements[k].element] = Reverse(ancestors(dom, e))

\* ---------------------------------------------------------------- rule set

IsAncestorCombinator(comb) == comb \in {"Child", "Descendant"}

RECURSIVE AncestorCompounds(_, _)
\* parser::AncestorIter: the compounds in ancestor position, skipping the key
\* compound and every compound reached through a sibling combinator.
AncestorCompounds(selector, k) ==
    IF k >= Len(selector.compounds) THEN <<>>
    ELSE IF IsAncestorCombinator(selector.combinators[k])
         THEN <<k + 1>> \o AncestorCompounds(selector, k + 1)
         ELSE AncestorCompounds(selector, k + 1)

\* Component::ancestor_hash under QuirksMode::NoQuirks: 0 stands for None.
HasAncestorHash(c) ==
    \/ c.type = "LocalName" /\ c.name = c.lower_name
    \/ c.type \in {"ID", "Class"}

\* AncestorHashes::new: at most four hashes, masked to 24 bits, padded with 0.
ancestor_hashes(selector) ==
    LET idx == AncestorCompounds(selector, 1)
        comps == Flatten([k \in 1..Len(idx) |-> selector.compounds[idx[k]]])
        hashed == SelectSeq(comps, HasAncestorHash)
    IN [k \in 1..4 |-> IF k <= Len(hashed)
                       THEN get_hash(hashed[k].name) % (BLOOM_HASH_MASK + 1) ELSE 0]

\* matching::may_match: a zero hash ends the probe.
may_match(hashes, filter) ==
    \A k \in 1..4 :
        (\A j \in 1..k : hashes[j] /= 0) => might_contain_hash(filter, hashes[k])

\* Rule::new
Rule_new(selector) == [selector |-> selector, hashes |-> ancestor_hashes(selector)]

RuleSet_new ==
    [id_rules |-> [k \in {} |-> <<>>], class_rules |-> [k \in {} |-> <<>>],
     tag_rules |-> [k \in {} |-> <<>>], universal_rules |-> <<>>, rule_count |-> 0]

\* RuleSet::extract_key_selector: decided by the last simple selector of the
\* rightmost compound.
extract_key_selector(selector) ==
    LET comps == Selector_iter(selector)
        last == comps[Len(comps)]
    IN IF comps = <<>> THEN [kind |-> "Universal", key |-> <<>>]
       ELSE CASE last.type = "ID" -> [kind |-> "Id", key |-> last.name]
              [] last.type = "Class" -> [kind |-> "Class", key |-> last.name]
              [] last.type = "LocalName" -> [kind |-> "Tag", key |-> last.lower_name]
              [] OTHER -> [kind |-> "Universal", key |-> <<>>]

\* HashMap::entry(key).or_default().push(rule)
bucket_push(buckets, key, rule) ==
    [k \in DOMAIN buckets \cup {key} |->
        IF k = key
        THEN (IF key \in DOMAIN buckets THEN buckets[key] ELSE <<>>) \o <<rule>>
        ELSE buckets[k]]

bucket_get(buckets, key) == IF key \in DOMAIN buckets THEN buckets[key] ELSE <<>>

\* RuleSet::add_rule
add_rule(rule_set, rule) ==
    LET key_component == extract_key_selector(rule.selector)
        placed ==
            CASE key_component.kind = "Id" ->
                    [rule_set EXCEPT !.id_rules = bucket_push(@, key_component.key, rule)]
              [] key_component.kind = "Class" ->
                    [rule_set EXCEPT !.class_rules = bucket_push(@, key_component.key, rule)]
              [] key_component.kind = "Tag" ->
                    [rule_set EXCEPT !.tag_rules = bucket_push(@, key_component.key, rule)]
              [] OTHER ->
                    [rule_set EXCEPT !.universal_rules = Append(@, rule)]
    IN [placed EXCEPT !.rule_count = @ + 1]

RECURSIVE RuleSet_from_iter(_, _)
RuleSet_from_iter(rules, rule_set) ==
    IF rules = <<>> THEN rule_set
    ELSE RuleSet_from_iter(Tail(rules), add_rule(rule_set, Head(rules)))

\* The tag bucket consulted for an element: keyed by its local name as it is.
tag_bucket(rule_set, dom, e) == bucket_get(rule_set.tag_rules, dom[e].local)

\* RuleSet::get_potential_rules: universal, id, each class, tag.
get_potential_rules(rule_set, dom, e) ==
    LET attributes == dom[e].attributes
    IN rule_set.universal_rules
       \o (IF Attributes_contains(attributes, S_id)
           THEN bucket_get(rule_set.id_rules, Attributes_get(attributes, S_id)) ELSE <<>>)
       \o Flatten([k \in 1..Len(attributes.class_list) |->
                     bucket_get(rule_set.class_rules, attributes.class_list[k])])
       \o tag_bucket(rule_set, dom, e)

\* style_calculation::matches_rule: the bloom fast reject, then full matching.
matches_rule(dom, e, rule, bloom) ==
    /\ may_match(rule.hashes, bloom.filter)
    /\ Selector_matches(dom, rule.selector, e)

\* style_calculation::calculate_matching_rules: the rules added for e.
calculate_matching_rules(dom, e, rule_set, bloom) ==
    { rule \in SeqToSet(get_potential_rules(rule_set, dom, e)) : matches_rule(dom, e, rule, bloom) }

\* ------------------------------------------------ calculate_styles_for_tree

VARIABLES
    pc,         \* where the operation under way stands
    dom,        \* the parsed document
    root,       \* the element calculate_styles_for_tree starts from
    selectors,  \* the compiled selectors handed to it
    rule_set, bloom, stack, rules,   \* its locals
    panicked,   \* a debug assertion failed
    debug_assertions, \* cfg!(debug_assertions): the build checks them
    result,     \* the set it returns
    options,    \* CrittersOptions
    sheet,      \* the stylesheet text process_style is given
    pass,       \* process_style's locals after its first pass
    reduced,    \* what process_style produced
    href,       \* the href get_css_asset is given
    platform,   \* the operating system the build runs on
    file,       \* the path get_css_asset resolved
    asset,      \* what get_css_asset returned
    reads,      \* the locations read from the file system
    html,       \* the markup process is given
    doc,        \* its style, link and noscript elements, as edited
    styles,     \* the style elements listed for reduction
    links,      \* the stylesheet links still to inline
    inlined,    \* the links that were inlined and are still in the document
    cursor,     \* the next entry of styles to reduce
    next_id,    \* the identity of the next created node
    premerge,   \* the document before merge_stylesheets
    outputs,    \* the markup each finished run returned
    attrs,      \* the Attributes of an element
    first_inserted, \* its remaining keys in the order they were first inserted
    loc_a, loc_b,   \* the locations of two style rules
    id_a, id_b,     \* what StyleRuleExt::id gave for them
    disk,       \* the content and the permissions of each file
    files,      \* the paths locate_html_files returned
    task,       \* where the closure of process_dir stands for each path
    held,       \* the html and the processed text each closure holds
    offset,     \* how far each closure's open file was read or written
    written,    \* the paths whose closure wrote, in the order of the writes
    dir_result  \* how process_dir ended

calcVars ==
    <<root, selectors, rule_set, bloom, stack, rules, panicked, debug_assertions, result>>
styleVars == <<sheet, pass, reduced>>
assetVars == <<href, platform, file, asset, reads>>
pipeVars == <<html, doc, styles, links, inlined, cursor, next_id, premerge, outputs>>
attrVars == <<attrs, first_inserted>>
idVars == <<loc_a, loc_b, id_a, id_b>>
dirVars == <<disk, files, task, held, offset, written, dir_result>>

\* What the steps of one operation leave alone: the document's content, the
\* options and the state of the other operations.
calcFrame == UNCHANGED <<dom, options, styleVars, assetVars, pipeVars, attrVars, idVars, dirVars>>
styleFrame == UNCHANGED <<dom, options, calcVars, assetVars, pipeVars, attrVars, idVars, dirVars>>
assetFrame == UNCHANGED <<dom, options, calcVars, styleVars, pipeVars, attrVars, idVars, dirVars>>
pipeFrame == UNCHANGED <<dom, options, calcVars, styleVars, assetVars, attrVars, idVars, dirVars>>
attrFrame ==
    UNCHANGED <<pc, dom, options, calcVars, styleVars, assetVars, pipeVars, idVars, dirVars>>
idFrame ==
    UNCHANGED <<dom, options, calcVars, styleVars, assetVars, pipeVars, attrVars, dirVars>>
dirFrame ==
    UNCHANGED <<dom, options, calcVars, styleVars, assetVars, pipeVars, attrVars, idVars>>

C_div == Component("LocalName", S_div)
C_DIV == Component("LocalName", <<"D">> \o Tail(S_div))
C_p == Component("LocalName", S_p)
C_body == Component("LocalName", S_body)
C_foreignObject == Component("LocalName", S_foreignObject)
C_class_a == Component("Class", S_a)
C_class_b == Component("Class", S_b)
C_class_x == Component("Class", S_x)
C_id_i == Component("ID", S_i)
C_attr_lang == Component("AttributeInNoNamespaceExists", S_lang)
C_universal == Component("ExplicitUniversalType", <<>>)
C_hover == Component("NonTSPseudoClass", <<"h", "o", "v", "e", "r">>)
C_link == Component("NonTSPseudoClass", <<"l", "i", "n", "k">>)
C_first_child == Component("FirstChild", <<>>)
C_last_child == Component("LastChild", <<>>)
C_lang_d == AttrComponent("AttributeInNoNamespace", "", S_lang, "Equal", <<"d">>, "")
C_any_class_b == AttrComponent("AttributeOther", "*", S_class, "Includes", S_b, "")

\* The selectors a generated selector list is drawn from, in a fixed order.
SelectorChoices ==
    << Selector1(<<C_div>>),                                   \* div
       Selector1(<<C_class_a>>),                               \* .a
       Selector1(<<C_id_i, C_class_b>>),                       \* #i.b
       Selector1(<<C_foreignObject>>),                         \* foreignObject
       Selector1(<<C_attr_lang>>),                             \* [lang]
       Selector2(<<C_class_b>>, "Descendant", <<C_class_a>>),  \* .a .b
       Selector2(<<C_p>>, "Child", <<C_DIV>>),                 \* DIV > p
       Selector2(<<C_universal>>, "Descendant", <<C_class_x>>), \* .x *
       Selector3(<<C_p>>, "NextSibling", <<C_div>>, "Child", <<C_body>>), \* body > div + p
       Selector1(<<C_p, C_hover>>),                            \* p:hover
       Selector1(<<C_p, C_first_child>>),                      \* p:first-child
       Selector1(<<C_link>>),                                  \* :link
       Selector1(<<C_lang_d, C_last_child>>),                  \* [lang=d]:last-child
       Selector1(<<C_any_class_b>>) >>                         \* [*|class~=b]

\* Selector lists: the selectors at increasing positions of SelectorChoices.
SelectorLists ==
    { [k \in 1..Len(idx) |-> SelectorChoices[idx[k]]] :
        idx \in { i \in UNION { [1..n -> 1..Len(SelectorChoices)] : n \in 0..MaxSelectors } :
                    \A k \in 1..(Len(i) - 1) : i[k] < i[k + 1] } }

CalcAtRest ==
    /\ root = 0 /\ selectors = <<>> /\ rule_set = RuleSet_new /\ bloom = StyleBloom_new
    /\ stack = <<>> /\ rules = {} /\ panicked = FALSE /\ result = {}

CalcIdle == CalcAtRest /\ debug_assertions = TRUE

CalcInit ==
    /\ pc = "calc_start"
    /\ dom \in Doms
    /\ root \in Nodes(dom)
    /\ selectors \in SelectorLists
    /\ rule_set = RuleSet_new /\ bloom = StyleBloom_new
    /\ stack = <<>> /\ rules = {} /\ panicked = FALSE /\ result = {}
    /\ debug_assertions \in BOOLEAN

\* calculate_styles_for_tree up to the loop: build the rule set, rebuild the
\* bloom filter for root, start the stack with root.
CalcStart ==
    /\ pc = "calc_start"
    /\ rule_set' = RuleSet_from_iter([k \in 1..Len(selectors) |-> Rule_new(selectors[k])], RuleSet_new)
    /\ bloom' = rebuild(StyleBloom_new, dom, root)
    /\ stack' = << <<root, traversal_depth(bloom')>> >>
    /\ pc' = "calc_loop"
    /\ UNCHANGED <<root, selectors, rules, panicked, debug_assertions, result>>
    /\ calcFrame

\* One iteration of the while loop: pop an element, pop the bloom filter down
\* to its depth, match its candidate rules, push it, stack its children.
CalcStep ==
    /\ pc = "calc_loop"
    /\ stack /= <<>>
    /\ LET el == stack[Len(stack)][1]
           depth == stack[Len(stack)][2]
           popped == pop_to_depth(bloom, depth)
           pushed == StyleBloom_push(popped, dom, el)
           kids == children(dom, el)
       IN /\ rules' = rules \cup calculate_matching_rules(dom, el, rule_set, popped)
          /\ panicked' = (panicked \/ (debug_assertions
                                        /\ (~assert_complete(popped, dom, el)
                                            \/ ~push_assertion(popped, dom, el))))
          /\ bloom' = pushed
          /\ stack' = SubSeq(stack, 1, Len(stack) - 1)
                        \o [k \in 1..Len(kids) |-> <<kids[k], traversal_depth(pushed)>>]
    /\ UNCHANGED <<pc, root, selectors, rule_set, debug_assertions, result>>
    /\ calcFrame

\* The stack is empty: return the selectors of the matched rules.
CalcFinish ==
    /\ pc = "calc_loop"
    /\ stack = <<>>
    /\ result' = { rule.selector : rule \in rules }
    /\ pc' = "calc_done"
    /\ UNCHANGED <<root, selectors, rule_set, bloom, stack, rules, panicked, debug_assertions>>
    /\ calcFrame


\* ------------------------------------------------------------ stylesheets

\* A top-level rule of a parsed stylesheet (lightningcss CssRule).  type is
\* Style, Keyframes, FontFace or Media (any other rule); loc is where it was
\* parsed; a Style rule has selectors and declarations, a Keyframes rule a
\* name, a FontFace rule its properties in declarations.
CssRule(type, selectors_, declarations, name) ==
    [type |-> type, loc |-> [source_index |-> 0, line |-> 0, column |-> 1],
     selectors |-> selectors_, declarations |-> declarations, name |-> name]

Decl(property, value) == [property |-> property, value |-> value]

\* A src value of @font-face: its comma-separated entries, local(..) or url(..).
SrcEntry(kind, value) == [kind |-> kind, value |-> value]

C_unsupported == Component("UnsupportedPseudoClass", <<>>)
C_before == Component("PseudoElement", <<"b", "e", "f", "o", "r", "e">>)
C_root == Component("Root", <<>>)

\* Selectors::compile fails on what the selector engine does not support.
compile_fails(selector) ==
    \E k \in 1..Len(selector.compounds) :
        \E j \in 1..Len(selector.compounds[k]) :
            selector.compounds[k][j].type \in {"UnsupportedPseudoClass", "PseudoElement"}

\* The selectors process_style keeps without looking at the document: the
\* text is ":root", "html", "body" or matches ^::?(before|after)$.
is_easy_selector(selector) ==
    /\ Len(selector.compounds) = 1
    /\ Len(selector.compounds[1]) = 1
    /\ LET c == selector.compounds[1][1] IN
        \/ c.type = "Root"
        \/ c.type = "LocalName" /\ c.name \in {S_html, S_body}
        \/ c.type = "PseudoElement"
             /\ c.name \in {<<"b", "e", "f", "o", "r", "e">>, <<"a", "f", "t", "e", "r">>}

\* The filter closure of process_style: is the selector kept?
selector_is_used(d, selector) ==
    \/ is_easy_selector(selector)
    \/ ~compile_fails(selector) /\ select_any(d, BodyId, selector)

\* The selectors the closure records in failed_selectors.
selector_fails(selector) == ~is_easy_selector(selector) /\ compile_fails(selector)

\* Unsigned integers wider than TLC's are written as sequences of 16-bit
\* limbs, most significant first: a u32 has two limbs, a u128 eight.
u32(n) == <<n \div 65536, n % 65536>>

\* x as u128
as_u128(x) == <<0, 0, 0, 0, 0, 0>> \o x

\* v << bits on a u128, for a shift by whole limbs: the limbs move up, the
\* topmost ones are dropped and zeros come in from below.
shl(v, bits) ==
    [i \in 1..Len(v) |-> IF i + bits \div 16 <= Len(v) THEN v[i + bits \div 16] ELSE 0]

\* "<<" overflows, and panics in a debug build, when the shift is as wide as
\* the type.
shl_overflows(v, bits) == bits >= 16 * Len(v)

RECURSIVE bit_or(_, _)
\* a | b on one limb, bit by bit.
bit_or(a, b) ==
    IF a = 0 THEN b
    ELSE IF b = 0 THEN a
    ELSE 2 * bit_or(a \div 2, b \div 2) + (IF a % 2 = 1 \/ b % 2 = 1 THEN 1 ELSE 0)

\* v | w
or_u128(v, w) == [i \in 1..Len(v) |-> bit_or(v[i], w[i])]

\* StyleRuleExt::id: source_index << 64 | line << 32 | column, in a u128.
StyleRuleExt_id(loc) ==
    or_u128(or_u128(or_u128(as_u128(<<0, 0>>), shl(as_u128(loc.source_index), 64)),
                    shl(as_u128(loc.line), 32)),
            as_u128(loc.column))

\* The limb of weight 65536^k of v; 0 above its width.
limb(v, k) == IF k >= 0 /\ k < Len(v) THEN v[Len(v) - k] ELSE 0

\* a * b on two limbs, as <<high limb, low limb>>; a is taken in two halves
\* so that no intermediate value has more than 31 bits.
mul_limb(a, b) ==
    <<((a \div 256) * b) \div 256
         + ((((a \div 256) * b) % 256) * 256 + (a % 256) * b) \div 65536,
      ((((a \div 256) * b) % 256) * 256 + (a % 256) * b) % 65536>>

RECURSIVE mul_column(_, _, _, _)
\* What the limb products x[i] * y[j], i >= from, add to the limb of weight
\* 65536^k: the low limbs of those with i + j = k and the high limbs of
\* those with i + j = k - 1.
mul_column(x, y, k, from) ==
    IF from >= Len(x) THEN 0
    ELSE mul_limb(limb(x, from), limb(y, k - from))[2]
         + mul_limb(limb(x, from), limb(y, k - 1 - from))[1]
         + mul_column(x, y, k, from + 1)

RECURSIVE mul_from(_, _, _, _)
\* The limbs of weight 65536^k and above of the full product x * y.
mul_from(x, y, k, carry) ==
    IF k = Len(x) + Len(y) THEN <<>>
    ELSE Append(mul_from(x, y, k + 1, (mul_column(x, y, k, 0) + carry) \div 65536),
                (mul_column(x, y, k, 0) + carry) % 65536)

RECURSIVE add_from(_, _, _, _)
\* The limbs of weight 65536^k and above of the full sum x + y.
add_from(x, y, k, carry) ==
    IF k = Len(x) THEN <<carry>>
    ELSE Append(add_from(x, y, k + 1, (limb(x, k) + limb(y, k) + carry) \div 65536),
                (limb(x, k) + limb(y, k) + carry) % 65536)

\* A u64 in the course of a computation: its four limbs, and whether an
\* operation on the way to it has overflowed.  With overflow checks the
\* operation panics; without them the value has wrapped.
as_u64(x) == [value |-> <<0, 0>> \o x, overflow |-> FALSE]

\* The low limbs of a full result, and whether the high ones are in use.
narrow(wide, width, a, b) ==
    [value |-> SubSeq(wide, Len(wide) - width + 1, Len(wide)),
     overflow |-> \/ a.overflow \/ b.overflow
                  \/ \E i \in 1..(Len(wide) - width) : wide[i] /= 0]

\* a * b in u64
mul_u64(a, b) == narrow(mul_from(a.value, b.value, 0, 0), Len(a.value), a, b)

\* a + b in u64
add_u64(a, b) == narrow(add_from(a.value, b.value, 0, 0), Len(a.value), a, b)

RECURSIVE ge_limbs(_, _)
\* x >= y on limbs of one width.
ge_limbs(x, y) ==
    IF x = <<>> THEN TRUE
    ELSE IF Head(x) /= Head(y) THEN Head(x) > Head(y)
    ELSE ge_limbs(Tail(x), Tail(y))

\* utils::szudzik_pair of crates/critters-rs: x * x + x + y if x >= y, and
\* y * y + x otherwise, in u64.
szudzik_pair(x, y) ==
    IF ge_limbs(x.value, y.value)
    THEN add_u64(add_u64(mul_u64(x, x), x), y)
    ELSE add_u64(mul_u64(y, y), x)

\* StyleRuleExt::id of crates/critters-rs: the pair of source_index and the
\* pair of line and column.
StyleRuleExt_id_szudzik(loc) ==
    szudzik_pair(as_u64(loc.source_index),
                 szudzik_pair(as_u64(loc.line), as_u64(loc.column)))

\* The id of a rule of a parsed stylesheet.
StyleRule_id(rule) ==
    StyleRuleExt_id([source_index |-> u32(rule.loc.source_index),
                     line |-> u32(rule.loc.line),
                     column |-> u32(rule.loc.column)])

\* The keyframe names a declaration adds to critical_keyframe_names.
keyframe_tokens(decl) ==
    IF decl.property \in {"animation", "animation-name"}
    THEN SeqToSet(split_whitespace(decl.value)) ELSE {}

RECURSIVE collect_fonts(_, _)
\* critical_fonts after the declarations: " " and the value per font-family.
collect_fonts(decls, critical_fonts_) ==
    IF decls = <<>> THEN critical_fonts_
    ELSE collect_fonts(Tail(decls),
                       IF Head(decls).property = "font-family"
                       THEN critical_fonts_ \o <<" ">> \o Head(decls).value
                       ELSE critical_fonts_)

RECURSIVE first_pass(_, _, _)
\* The first pass of process_style from rule i on.  st holds ast,
\* rules_to_remove, critical_keyframe_names, critical_fonts, failed_selectors.
\* A style rule left without selectors is recorded and ends the loop (break).
first_pass(d, i, st) ==
    IF i > Len(st.ast) THEN st
    ELSE LET rule == st.ast[i] IN
         IF rule.type /= "Style" THEN first_pass(d, i + 1, st)
         ELSE LET filtered_selectors == SelectSeq(rule.selectors, LAMBDA sel : selector_is_used(d, sel))
                  failed == SelectSeq(rule.selectors, selector_fails)
                  st1 == [st EXCEPT !.failed_selectors = @ \o failed]
              IN IF filtered_selectors = <<>>
                 THEN [st1 EXCEPT !.rules_to_remove = @ \cup {StyleRule_id(rule)}]
                 ELSE first_pass(d, i + 1,
                        [st1 EXCEPT
                           !.ast[i].selectors = filtered_selectors,
                           !.critical_keyframe_names =
                               @ \cup UNION { keyframe_tokens(rule.declarations[k]) :
                                                k \in 1..Len(rule.declarations) },
                           !.critical_fonts = collect_fonts(rule.declarations, @)])

\* The letters of the model's strings.
is_letter(c) == \E i \in CharCode("D")..Len(Chars) : Chars[i] = c

\* cssparser::serialize_string: the value between double quotes.  The values
\* of the model hold neither a quote nor a backslash, which would be escaped.
serialize_string(value) == <<"\"">> \o value \o <<"\"">>

\* cssparser::serialize_identifier: a character that cannot stand in an
\* identifier gets a backslash before it.
serialize_identifier(value) ==
    Flatten([k \in 1..Len(value) |->
                IF is_letter(value[k]) \/ value[k] = "-" THEN <<value[k]>>
                ELSE <<"\\", value[k]>>])

\* FamilyName::to_css: the name as an identifier where that is shorter than
\* the name as a string.
FamilyName_to_css(value) ==
    IF value /= <<>> /\ Len(serialize_identifier(value)) < Len(value) + 2
    THEN serialize_identifier(value)
    ELSE serialize_string(value)

RECURSIVE join(_, _)
\* The pieces one after the other, sep between them.
join(pieces, sep) ==
    IF pieces = <<>> THEN <<>>
    ELSE IF Len(pieces) = 1 THEN pieces[1]
    ELSE pieces[1] \o sep \o join(Tail(pieces), sep)

\* Source::to_css_string of a src value: url("..") and local(..) entries
\* with ", " between them.
Source_to_css_string(src) ==
    join([k \in 1..Len(src) |->
            IF src[k].kind = "url"
            THEN <<"u", "r", "l", "(">> \o serialize_string(src[k].value) \o <<")">>
            ELSE <<"l", "o", "c", "a", "l", "(">> \o FamilyName_to_css(src[k].value) \o <<")">>],
         <<",", " ">>)

RECURSIVE skip_whitespace(_, _)
\* \s*: the position after the whitespace that starts at position i.
skip_whitespace(text, i) ==
    IF i <= Len(text) /\ text[i] = " " THEN skip_whitespace(text, i + 1) ELSE i

\* Where group 2 starts when group 1 starts at position q.
group2_from(q, quote) == IF quote THEN q + 1 ELSE q

\* \s*\) after the match of \1 that follows group 2, which ends at to.
href_regex_closes(text, after) == after <= Len(text) /\ text[after] = ")"

\* (['"]?)(.+?)\1\s*\) from position q on, group 2 ending at position to.
href_regex_matches_to(text, q, quote, to) ==
    /\ to <= Len(text)
    /\ quote => text[q] \in {"'", "\""}
    /\ quote => (to + 1 <= Len(text) /\ text[to + 1] = text[q])
    /\ href_regex_closes(text, skip_whitespace(text, IF quote THEN to + 2 ELSE to + 1))

\* The ways the rest of href_regex matches after the parenthesis, first being
\* the position after it and last the position after the whitespace there.
href_regex_matches_in(text, first, last) ==
    { m \in [ws : 0..(last - first), quote : BOOLEAN, len : 1..Len(text)] :
        href_regex_matches_to(text, first + m.ws, m.quote,
                              group2_from(first + m.ws, m.quote) + m.len - 1) }

\* \( at position open, and the rest.
href_regex_matches_open(text, open) ==
    IF open <= Len(text) /\ text[open] = "("
    THEN href_regex_matches_in(text, open + 1, skip_whitespace(text, open + 1))
    ELSE {}

\* The ways href_regex, url\s*\(\s*(['"]?)(.+?)\1\s*\), matches from position
\* i on: how much whitespace goes to the second \s*, whether group 1 takes a
\* quote, and how long group 2 is.
href_regex_matches_at(text, i) ==
    IF i + 2 <= Len(text) /\ SubSeq(text, i, i + 2) = <<"u", "r", "l">>
    THEN href_regex_matches_open(text, skip_whitespace(text, i + 3))
    ELSE {}

\* The order in which the regex engine tries the ways to match: the greedy
\* \s* and ['"]? take what they can first, the lazy .+? as little as it can.
href_regex_prefers(m, n) ==
    \/ m.ws > n.ws
    \/ m.ws = n.ws /\ m.quote /\ ~n.quote
    \/ m.ws = n.ws /\ m.quote = n.quote /\ m.len <= n.len

\* The way the engine finds first.
href_regex_first(ms) == CHOOSE n \in ms : \A o \in ms : href_regex_prefers(n, o)

\* Group 2 of the match m, first being the position after the parenthesis.
href_regex_group2(text, first, m) ==
    SubSeq(text, group2_from(first + m.ws, m.quote),
                 group2_from(first + m.ws, m.quote) + m.len - 1)

\* Group 2 of the leftmost match, which starts at the least of starts.
href_regex_leftmost(text, starts) ==
    IF starts = {} THEN Nil
    ELSE href_regex_group2(text,
             skip_whitespace(text, (CHOOSE j \in starts : \A k \in starts : j <= k) + 3) + 1,
             href_regex_first(href_regex_matches_at(text,
                                  CHOOSE j \in starts : \A k \in starts : j <= k)))

\* href_regex.captures(&src) and group 2 of it: the leftmost match, Nil when
\* there is none.
href_regex_captures(text) ==
    href_regex_leftmost(text, { i \in 1..Len(text) : href_regex_matches_at(text, i) /= {} })

\* The href process_style takes from a src value: what href_regex captures
\* in the text of the value.
first_url(src) == href_regex_captures(Source_to_css_string(src))

RECURSIVE font_face_scan(_, _)
\* The loop over the properties of a @font-face rule: href and family as the
\* last src and font-family declarations leave them.
font_face_scan(props, acc) ==
    IF props = <<>> THEN acc
    ELSE font_face_scan(Tail(props),
           CASE Head(props).property = "src" ->
                    [acc EXCEPT !.href = first_url(Head(props).value)]
             [] Head(props).property = "font-family" ->
                    [acc EXCEPT !.family = Head(props).value]
             [] OTHER -> acc)

RECURSIVE retain_rules(_, _, _, _)
\* The retain pass of process_style from rule i on.  st holds the first-pass
\* state; out holds the rules kept, preloaded_fonts and the font preloads
\* injected into head, in order.
retain_rules(opts, i, st, out) ==
    IF i > Len(st.ast) THEN out
    ELSE LET rule == st.ast[i] IN
      CASE rule.type = "Style" ->
             retain_rules(opts, i + 1, st,
               IF StyleRule_id(rule) \notin st.rules_to_remove
               THEN [out EXCEPT !.rules = Append(@, rule)] ELSE out)
        [] rule.type = "Keyframes" ->
             retain_rules(opts, i + 1, st,
               IF rule.name \in st.critical_keyframe_names
               THEN [out EXCEPT !.rules = Append(@, rule)] ELSE out)
        [] rule.type = "FontFace" ->
             LET ff == font_face_scan(rule.declarations, [href |-> Nil, family |-> Nil])
                 preload == /\ ff.href /= Nil
                            /\ opts.preload_fonts
                            /\ ff.href \notin out.preloaded_fonts
                 out1 == IF preload
                         THEN [out EXCEPT !.preloaded_fonts = @ \cup {ff.href},
                                          !.injected = Append(@, ff.href)]
                         ELSE out
                 keep == /\ opts.inline_fonts
                         /\ ff.family /= Nil
                         /\ ff.href /= Nil
                         /\ contains(st.critical_fonts, ff.family)
             IN retain_rules(opts, i + 1, st,
                  IF keep THEN [out1 EXCEPT !.rules = Append(@, rule)] ELSE out1)
        [] OTHER ->
             retain_rules(opts, i + 1, st, [out EXCEPT !.rules = Append(@, rule)])

\* The state process_style starts its first pass with.
FirstPassInit(ast_) ==
    [ast |-> ast_, rules_to_remove |-> {}, critical_keyframe_names |-> {},
     critical_fonts |-> <<>>, failed_selectors |-> <<>>]

RetainInit == [rules |-> <<>>, preloaded_fonts |-> {}, injected |-> <<>>]

\* StyleSheet::parse: the rules of the text, each with the place it was
\* parsed at (one rule per line).
StyleSheet_parse(text) ==
    [i \in 1..Len(text) |->
        [text[i] EXCEPT !.loc = [source_index |-> 0, line |-> i - 1, column |-> 1]]]

\* A rule the parser rejects, such as ".x{color:}".
InvalidRule == CssRule("Invalid", <<>>, <<>>, Nil)

\* StyleSheet::parse with the default options (no error recovery) fails on
\* the whole text when one rule of it is rejected.
parse_fails(text) == \E i \in 1..Len(text) : text[i].type = "Invalid"

\* StyleSheet::to_css: the text of the rules, which carries no locations.
to_css(rules_) ==
    [i \in 1..Len(rules_) |->
        [rules_[i] EXCEPT !.loc = [source_index |-> 0, line |-> 0, column |-> 1]]]

\* process_style as a function: the text of the reduced stylesheet, the font
\* preloads injected into head along the way, and the selectors that failed.
process_style(opts, d, sheet_) ==
    LET st == first_pass(d, 1, FirstPassInit(StyleSheet_parse(sheet_)))
        out == retain_rules(opts, 1, st, RetainInit)
    IN [css |-> to_css(out.rules), injected |-> out.injected,
        failed_selectors |-> st.failed_selectors]

\* ------------------------------------------------- process_style, stepwise

KeyframesStrategies == {"Critical", "All", "None"}
PreloadStrategies == {"BodyPreload", "Body", "Media", "Swap", "SwapHigh", "None"}

\* CrittersOptions::default.
DefaultOptions ==
    [path |-> <<>>, public_path |-> <<>>, external |-> TRUE,
     merge_stylesheets |-> TRUE, additional_stylesheets |-> <<>>,
     reduce_inline_styles |-> TRUE, preload |-> "BodyPreload",
     noscript_fallback |-> TRUE, inline_fonts |-> FALSE, preload_fonts |-> TRUE,
     keyframes |-> "Critical", compress |-> TRUE]

S_spin == <<"s">>
S_fade == <<"f">>
S_font_a == <<"a">>
S_font_ab == <<"a", "b">>
S_url1 == <<"a", ".", "s">>
S_url2 == <<"b", ".", "s">>

\* The rules a generated stylesheet is drawn from, in a fixed order.
RuleChoices ==
    << CssRule("Style", << Selector1(<<C_class_x>>) >>,                \* .x{font-family:ab}
               << Decl("font-family", S_font_ab) >>, Nil),
       CssRule("Style", << Selector1(<<C_class_a>>) >>,                \* .a{animation:s 1}
               << Decl("animation", S_spin \o <<" ", "1">>) >>, Nil),
       CssRule("Keyframes", <<>>, <<>>, S_spin),                       \* @keyframes s
       CssRule("Style", << Selector1(<<C_class_x>>), Selector1(<<C_class_b>>) >>,
               << Decl("font-family", S_font_ab),                      \* .x,.b{font-family:ab;
                  Decl("animation-name", S_fade) >>, Nil),             \*       animation-name:f}
       CssRule("Keyframes", <<>>, <<>>, S_fade),                       \* @keyframes f
       CssRule("Style", << Selector1(<<C_unsupported>>), Selector1(<<C_body>>),
                           Selector1(<<C_before>>) >>,                 \* :unsupported,body,::before
               << Decl("color", <<"x">>) >>, Nil),
       CssRule("FontFace", <<>>,                                       \* @font-face a, two urls
               << Decl("font-family", S_font_a),
                  Decl("src", << SrcEntry("local", S_font_a), SrcEntry("url", S_url1),
                                 SrcEntry("url", S_url2) >>) >>, Nil),
       CssRule("FontFace", <<>>,                                       \* @font-face ab, no url
               << Decl("font-family", S_font_ab),
                  Decl("src", << SrcEntry("local", S_font_ab) >>) >>, Nil),
       CssRule("Media", <<>>, <<>>, Nil),                              \* @media
       CssRule("FontFace", <<>>,                                       \* @font-face a, the url
               << Decl("font-family", S_font_a),                       \*   of the first again
                  Decl("src", << SrcEntry("url", S_url1) >>) >>, Nil),
       CssRule("FontFace", <<>>,                                       \* @font-face ab, two src
               << Decl("font-family", S_font_ab),                      \*   descriptors
                  Decl("src", << SrcEntry("url", S_url2) >>),
                  Decl("src", << SrcEntry("url", S_url1), SrcEntry("local", S_font_ab) >>) >>,
               Nil),
       CssRule("FontFace", <<>>,                                       \* @font-face a, the url
               << Decl("font-family", S_font_a),                       \*   of the first after a
                  Decl("src", << SrcEntry("url", <<" ">> \o S_url1) >>) >>, Nil), \* space
       CssRule("Style", << Selector1(<<C_link>>) >>,                   \* :link{color:x}
               << Decl("color", <<"x">>) >>, Nil),
       CssRule("Style", << Selector1(<<C_p, C_last_child>>) >>,        \* p:last-child{color:x}
               << Decl("color", <<"x">>) >>, Nil),
       CssRule("FontFace", <<>>,                                       \* @font-face a, an
               << Decl("font-family", S_font_a),                       \*   empty url
                  Decl("src", << SrcEntry("url", <<>>) >>) >>, Nil),
       CssRule("FontFace", <<>>,                                       \* @font-face a, a
               << Decl("font-family", S_font_a),                       \*   local name that
                  Decl("src", << SrcEntry("local", <<"u", "r", "l", "(">> \o S_url2 \o <<")">>),
                                 SrcEntry("url", S_url1) >>) >>, Nil) >> \* reads url(b.s)

\* The selections of at most n entries of a list, in the list's order.
Selections(list, n) ==
    { [k \in 1..Len(idx) |-> list[idx[k]]] :
        idx \in { i \in UNION { [1..m -> 1..Len(list)] : m \in 0..n } :
                    \A k \in 1..(Len(i) - 1) : i[k] < i[k + 1] } }

StyleSheets == Selections(RuleChoices, MaxRules)

\* The documents the stylesheets are reduced against: at most one element
\* below body.
StyleDoms == { d \in Doms : Len(d) <= BodyId + 1 }

StyleOptions ==
    { [DefaultOptions EXCEPT !.keyframes = k, !.inline_fonts = f, !.preload_fonts = p] :
        k \in KeyframesStrategies, f \in BOOLEAN, p \in BOOLEAN }

StyleIdle ==
    /\ sheet = <<>> /\ pass = FirstPassInit(<<>>)
    /\ reduced = [css |-> <<>>, injected |-> <<>>]

StyleInit ==
    /\ pc = "style_first_pass"
    /\ dom \in StyleDoms
    /\ options \in StyleOptions
    /\ sheet \in StyleSheets
    /\ pass = FirstPassInit(<<>>)
    /\ reduced = [css |-> <<>>, injected |-> <<>>]

\* process_style up to the end of its first pass.
StyleFirstPass ==
    /\ pc = "style_first_pass"
    /\ pass' = first_pass(dom, 1, FirstPassInit(StyleSheet_parse(sheet)))
    /\ pc' = "style_retain"
    /\ UNCHANGED <<sheet, reduced>>
    /\ styleFrame

\* The rest of process_style: retain, then serialise.
StyleRetain ==
    /\ pc = "style_retain"
    /\ LET out == retain_rules(options, 1, pass, RetainInit)
       IN reduced' = [css |-> to_css(out.rules), injected |-> out.injected]
    /\ pc' = "style_done"
    /\ UNCHANGED <<sheet, pass>>
    /\ styleFrame

\* ----------------------------------------------------------------- assets

None == [some |-> FALSE, value |-> <<>>]
Some(v) == [some |-> TRUE, value |-> v]

\* str::strip_prefix(..).unwrap_or(s)
strip_prefix_or(s, prefix) ==
    IF starts_with(s, prefix) THEN SubSeq(s, Len(prefix) + 1, Len(s)) ELSE s

\* Path::new: a path is the string it is made from.
Path_new(s) == s

\* Path::is_absolute
Path_is_absolute(p) == starts_with(p, <<"/">>)

\* Path::components: RootDir ("/") for an absolute path, CurDir (".") where a
\* relative path starts with it, then the normal and the ".." components;
\* repeated separators, any other "." and a trailing separator leave none.
Path_components(p) ==
    LET pieces == SplitOn(p, {"/"}, <<>>)
    IN (IF Path_is_absolute(p) THEN << <<"/">> >> ELSE <<>>)
       \o (IF ~Path_is_absolute(p) /\ pieces[1] = <<".">> THEN << <<".">> >> ELSE <<>>)
       \o SelectSeq(pieces, LAMBDA c : c \notin {<<>>, <<".">>})

\* Path::join (PathBuf::push): an absolute right-hand side replaces the left;
\* otherwise it is added, after a separator unless the left ends with one.
Path_join(base, p) ==
    IF Path_is_absolute(p) THEN p
    ELSE IF base /= <<>> /\ base[Len(base)] /= "/" THEN base \o <<"/">> \o p
    ELSE base \o p

RECURSIVE resolve_dots(_, _)
\* The lexical resolution of GetFullPathNameW: each ".." cancels the
\* component before it; ".." at the root stays at the root.
resolve_dots(comps, acc) ==
    IF comps = <<>> THEN acc
    ELSE resolve_dots(Tail(comps),
           IF Head(comps) = <<".", ".">>
           THEN (IF acc = <<>> THEN acc ELSE SubSeq(acc, 1, Len(acc) - 1))
           ELSE Append(acc, Head(comps)))

\* The directory the process runs in.
Cwd == Path_new(<<"/", "w">>)

Platforms == {"posix", "windows"}

\* The normal and ".." components of a path.
Path_names(p) == SelectSeq(Path_components(p), LAMBDA c : c \notin {<<"/">>, <<".">>})

\* std::path::absolute of a path that is not empty: the components of the
\* path, without a leading ".", after the root or after the current
\* directory; two separators at the start stay two, and a trailing separator
\* stays.  On POSIX ".." components are kept as they are; on Windows the
\* path goes through GetFullPathNameW, which resolves them lexically.
path_absolute(os, p) ==
    LET all == (IF Path_is_absolute(p) THEN <<>> ELSE Path_names(Cwd)) \o Path_names(p)
        kept == IF os = "windows" THEN resolve_dots(all, <<>>) ELSE all
        normalized == IF starts_with(p, <<"/", "/">>) /\ ~starts_with(p, <<"/", "/", "/">>)
                      THEN <<"/", "/">> ELSE <<"/">>
    IN normalized \o join(kept, <<"/">>)
            \o (IF p[Len(p)] = "/" /\ kept /= <<>> THEN <<"/">> ELSE <<>>)

\* Path::starts_with: a prefix of whole components.
Path_starts_with(p, base) == starts_with(Path_components(p), Path_components(base))

S_css == <<".", "c", "s", "s">>
S_http == <<"h", "t", "t", "p", ":", "/", "/">>
S_https == <<"h", "t", "t", "p", "s", ":", "/", "/">>

\* The stylesheets on disk.
SheetA == << RuleChoices[2], RuleChoices[1] >>
SheetB == << RuleChoices[4], RuleChoices[3] >>
SheetSecret == << RuleChoices[6] >>

\* The file system: the files by the components of their location.
FilePlaces ==
    { <<<<"o">>, <<"s">> \o S_css>>,
      <<<<"o">>, <<"b">> \o S_css>>,
      <<<<"w">>, <<"o">>, <<"s">> \o S_css>>,
      <<<<"x">> \o S_css>>,
      <<<<"w">>, <<"x">> \o S_css>> }

\* The text of the file at a place.
file_text(at) ==
    CASE at[Len(at)] = <<"b">> \o S_css -> SheetB
      [] at[Len(at)] = <<"x">> \o S_css -> SheetSecret
      [] OTHER -> SheetA

Files == { [at |-> at, text |-> file_text(at)] : at \in FilePlaces }

\* The directories of the file system: the root and every directory on the
\* way to a file.
Dirs == UNION { { SubSeq(at, 1, k) : k \in 0..(Len(at) - 1) } : at \in FilePlaces }

RECURSIVE walk(_, _)
\* The path walk of the operating system from the place cur: a component is
\* looked up in a directory only, "." stays in it, ".." leads to the parent
\* directory (the root is its own parent) and any other component must be
\* there.
walk(comps, cur) ==
    IF comps = <<>> THEN [some |-> TRUE, value |-> cur, err |-> ""]
    ELSE IF cur \notin Dirs THEN [some |-> FALSE, value |-> cur, err |-> "NotADirectory"]
    ELSE IF Head(comps) = <<".">> THEN walk(Tail(comps), cur)
    ELSE IF Head(comps) = <<".", ".">>
         THEN walk(Tail(comps), IF cur = <<>> THEN cur ELSE SubSeq(cur, 1, Len(cur) - 1))
    ELSE IF Append(cur, Head(comps)) \in Dirs \cup FilePlaces
         THEN walk(Tail(comps), Append(cur, Head(comps)))
    ELSE [some |-> FALSE, value |-> Append(cur, Head(comps)), err |-> "NotFound"]

\* A path that ends with a separator must lead to a directory.
trailing_separator(p, at) ==
    IF at.some /\ p[Len(p)] = "/" /\ at.value \notin Dirs
    THEN [some |-> FALSE, value |-> at.value, err |-> "NotADirectory"]
    ELSE at

\* Where the operating system finds an absolute path, when it does: the
\* names between the separators are walked from the root, and a path that
\* ends with a separator must lead to a directory.
location(p) ==
    trailing_separator(p, walk(SelectSeq(SplitOn(p, {"/"}, <<>>), LAMBDA c : c /= <<>>), <<>>))

\* The text of the file at a location, when a file is there.
read_file(loc) ==
    IF loc.some /\ loc.value \in FilePlaces THEN Some(file_text(loc.value)) ELSE None

\* fs::read_to_string: the text of the file the path leads to; a directory
\* cannot be read.
read_to_string(p) == read_file(location(p))

\* public_path without a leading and a trailing "/", then "/".
path_prefix(public_path) ==
    LET a == strip_prefix_or(public_path, <<"/">>)
        b == IF ends_with(a, <<"/">>) THEN SubSeq(a, 1, Len(a) - 1) ELSE a
    IN b \o <<"/">>

\* get_css_asset: the href with a leading "/" and the public path removed.
normalized_path(opts, href_) ==
    LET n == strip_prefix_or(href_, <<"/">>)
        prefix == path_prefix(opts.public_path)
    IN IF starts_with(n, prefix)
       THEN strip_prefix_or(strip_prefix_or(n, prefix), <<"/">>)
       ELSE n

\* get_css_asset: is the stylesheet remote?
is_remote(opts, href_) ==
    LET n == normalized_path(opts, href_)
    IN starts_with(n, S_http) \/ starts_with(n, S_https) \/ starts_with(href_, <<"/", "/">>)

\* get_css_asset up to the read: the file it is about to read, None when the
\* href is remote or the path check rejects it.
resolve_asset(os, opts, href_) ==
    LET output_path_absolute == path_absolute(os, Path_new(opts.path))
        filename == path_absolute(os, Path_join(Path_new(opts.path),
                                                Path_new(normalized_path(opts, href_))))
    IN IF is_remote(opts, href_) THEN None
       ELSE IF ~Path_starts_with(filename, output_path_absolute) THEN None
       ELSE Some(filename)

\* get_css_asset
get_css_asset(os, opts, href_) ==
    LET filename == resolve_asset(os, opts, href_)
    IN IF filename.some THEN read_to_string(filename.value) ELSE None

\* -------------------------------------------------- get_css_asset, stepwise

S_path_abs == <<"/", "o">>
S_path_rel == <<"o">>
S_path_dot == <<".", "/", "o">>

\* The hrefs a link may carry.
Hrefs ==
    { <<"/", "s">> \o S_css,                                  \* /s.css
      <<"s">> \o S_css,                                       \* s.css
      <<"/", "b">> \o S_css,                                  \* /b.css
      <<"/", "n">> \o S_css,                                  \* /n.css, no such file
      <<"/", "s">> \o S_css \o <<"/">>,                       \* /s.css/
      <<"/", "p", "/", "s">> \o S_css,                        \* /p/s.css
      <<".", ".", "/", "x">> \o S_css,                        \* ../x.css
      <<"/", ".", ".", "/", "x">> \o S_css,                   \* /../x.css
      <<"/", "b", "/", ".", ".", "/", "s">> \o S_css,         \* /b/../s.css
      <<"/", "p", "/", "/", "/", "x">> \o S_css,              \* /p///x.css
      <<"/", "/", "c", "/", "s">> \o S_css,                   \* //c/s.css
      S_http \o <<"c", "/", "s">> \o S_css,                   \* http://c/s.css
      <<"/">> \o S_https \o <<"c", "/", "s">> \o S_css }      \* /https://c/s.css

AssetOptions ==
    { [DefaultOptions EXCEPT !.path = p, !.public_path = q] :
        p \in {S_path_abs, S_path_rel, S_path_dot},
        q \in {<<>>, <<"p">>, <<"/", "p", "/">>} }

AssetIdle ==
    /\ href = <<>> /\ platform = "posix" /\ file = None /\ asset = None /\ reads = {}

AssetInit ==
    /\ pc = "asset_resolve"
    /\ dom = DomOf(0, <<>>, <<>>)
    /\ options \in AssetOptions
    /\ href \in Hrefs
    /\ platform \in Platforms
    /\ file = None /\ asset = None /\ reads = {}

\* get_css_asset up to the path check.
AssetResolve ==
    /\ pc = "asset_resolve"
    /\ file' = resolve_asset(platform, options, href)
    /\ pc' = IF file'.some THEN "asset_read" ELSE "asset_done"
    /\ UNCHANGED <<href, platform, asset, reads>>
    /\ assetFrame

\* get_css_asset: the read of the resolved file.
AssetRead ==
    /\ pc = "asset_read"
    /\ asset' = read_to_string(file.value)
    /\ reads' = IF asset'.some THEN reads \cup {location(file.value).value} ELSE reads
    /\ pc' = "asset_done"
    /\ UNCHANGED <<href, platform, file>>
    /\ assetFrame

\* ------------------------------------------------- the document, as edited

S_link == <<"l", "i", "n", "k">>
S_noscript == <<"n", "o", "s", "c", "r", "i", "p", "t">>
S_rel == <<"r", "e", "l">>
S_href == <<"h", "r", "e", "f">>
S_media == <<"m", "e", "d", "i", "a">>
S_onload == <<"o", "n", "l", "o", "a", "d">>
S_as == <<"a", "s">>
S_title == <<"t", "i", "t", "l", "e">>
S_crossorigin == <<"c", "r", "o", "s", "s", "o", "r", "i", "g", "i", "n">>
S_stylesheet == <<"s", "t", "y", "l", "e", "s", "h", "e", "e", "t">>
S_preload == <<"p", "r", "e", "l", "o", "a", "d">>
S_alternate == <<"a", "l", "t", "e", "r", "n", "a", "t", "e">>
S_print == <<"p", "r", "i", "n", "t">>
S_all == <<"a", "l", "l">>
S_font == <<"f", "o", "n", "t">>
S_anonymous == <<"a", "n", "o", "n", "y", "m", "o", "u", "s">>
S_styles == <<"s", "t", "y", "l", "e", "s">>
S_screen == <<"s", "c", "r", "e", "e", "n">>
S_this == <<"t", "h", "i", "s", ".">>
S_quote == <<"'">>

\* A document: the style, link and noscript children of its head and of its
\* body, and whether it has a body element at all.
Document(head, body, has_body) == [head |-> head, body |-> body, has_body |-> has_body]

EmptyDocument == Document(<<>>, <<>>, TRUE)

\* A style, link or noscript element of the document: text is the text child
\* of a style element, children the element children of a noscript element,
\* raw the content of a noscript element that was parsed as text.
NewNode(nid, local, attributes, text) ==
    [nid |-> nid, local |-> local, attributes |-> attributes, text |-> text,
     children |-> <<>>, raw |-> <<>>]

\* NodeRef::new_html_element
new_html_element(nid, local, pairs) == NewNode(nid, local, Attributes_new(pairs), None)

\* The style, link and noscript children of head and of body, in document
\* order; the other elements of body are in dom and stand before them.
all_nodes(d) == d.head \o d.body

node_ids(d) == { all_nodes(d)[k].nid : k \in 1..Len(all_nodes(d)) }

node_at(d, nid) == CHOOSE n \in SeqToSet(all_nodes(d)) : n.nid = nid

RECURSIVE seq_insert_before(_, _, _)
seq_insert_before(nodes, nid, new) ==
    IF nodes = <<>> THEN <<>>
    ELSE IF Head(nodes).nid = nid THEN <<new>> \o nodes
    ELSE <<Head(nodes)>> \o seq_insert_before(Tail(nodes), nid, new)

\* NodeRef::insert_before
insert_before(d, nid, new) ==
    [d EXCEPT !.head = seq_insert_before(d.head, nid, new),
              !.body = seq_insert_before(d.body, nid, new)]

\* NodeRef::detach
detach(d, nid) ==
    [d EXCEPT !.head = SelectSeq(d.head, LAMBDA n : n.nid /= nid),
              !.body = SelectSeq(d.body, LAMBDA n : n.nid /= nid)]

\* NodeRef::append on body and on head; a node that is in the tree moves.
append_to_body(d, new) == [detach(d, new.nid) EXCEPT !.body = Append(@, new)]
append_to_head(d, new) == [detach(d, new.nid) EXCEPT !.head = Append(@, new)]

\* The document with the node of that id replaced.
with_node(d, new) ==
    [d EXCEPT
       !.head = [k \in 1..Len(d.head) |-> IF d.head[k].nid = new.nid THEN new ELSE d.head[k]],
       !.body = [k \in 1..Len(d.body) |-> IF d.body[k].nid = new.nid THEN new ELSE d.body[k]]]

\* NodeRef::text_contents of a style element.
text_contents(node) == IF node.text.some THEN node.text.value ELSE <<>>

\* dom.select("style"): the ids of the style elements in document order.
select_styles(d) ==
    LET found == SelectSeq(all_nodes(d), LAMBDA n : n.local = S_style)
    IN [k \in 1..Len(found) |-> found[k].nid]

\* The selector link[rel="stylesheet"] on an element of the document, which
\* is an HTML element in an HTML document: the value of rel is compared as
\* the selector's case sensitivity for rel says.
matches_stylesheet_link(n) ==
    /\ n.local = S_link
    /\ Attributes_contains(n.attributes, S_rel)
    /\ eval_str("Equal", to_unconditional(to_case_sensitivity("", S_rel, FALSE), TRUE),
                S_stylesheet, Attributes_get(n.attributes, S_rel))

\* dom.select("link[rel=\"stylesheet\"]")
select_stylesheet_links(d) ==
    LET found == SelectSeq(all_nodes(d), matches_stylesheet_link)
    IN [k \in 1..Len(found) |-> found[k].nid]

RECURSIVE live_body(_, _)
\* The style, link and noscript children of body as elements of the parsed
\* document, the first of them getting the id after n; the element children
\* of a noscript element come right after it.
live_body(nodes, n) ==
    IF nodes = <<>> THEN <<>>
    ELSE LET node == Head(nodes)
             inner == [k \in 1..Len(node.children) |->
                         [parent |-> n + 1, ns |-> "html", local |-> node.children[k].local,
                          attributes |-> node.children[k].attributes]]
         IN << [parent |-> BodyId, ns |-> "html", local |-> node.local,
                attributes |-> node.attributes] >>
            \o inner \o live_body(Tail(nodes), n + 1 + Len(inner))

\* The document process_style looks at: the elements of content and, after
\* them, what body holds of style, link and noscript elements by now.
live_dom(content, d) == content \o live_body(d.body, Len(content))

\* Serialising a node: its markup carries no identity, an empty text leaves
\* no trace, and the children of a noscript element become its content.
serialize_node(node) ==
    [node EXCEPT !.nid = 0,
                 !.text = IF text_contents(node) = <<>> THEN None ELSE node.text,
                 !.children = <<>>,
                 !.raw = IF node.children /= <<>>
                         THEN [k \in 1..Len(node.children) |->
                                 [node.children[k] EXCEPT !.nid = 0]]
                         ELSE node.raw]

\* dom.serialize
serialize(d) ==
    [d EXCEPT !.head = [k \in 1..Len(d.head) |-> serialize_node(d.head[k])],
              !.body = [k \in 1..Len(d.body) |-> serialize_node(d.body[k])]]

\* kuchikiki::parse_html: the elements get their identities in document
\* order; the content of a noscript element stays text (scripting is on).
\* The parser gives every document a head, and a body unless the markup has
\* a frameset in its place (has_body).
parse_html(html_) ==
    [html_ EXCEPT
       !.head = [k \in 1..Len(html_.head) |-> [html_.head[k] EXCEPT !.nid = k]],
       !.body = [k \in 1..Len(html_.body) |->
                   [html_.body[k] EXCEPT !.nid = Len(html_.head) + k]]]

\* ----------------------------------------------------------- the pipeline

\* utils::is_valid_media_query. The media values of the model are either a
\* media type, an identifier of letters, or no media query at all.
is_valid_media_query(m) ==
    /\ m /= <<>>
    /\ \A k \in 1..Len(m) :
          \E i \in CharCode("D")..Len(Chars) : Chars[i] = m[k]

\* A variant that copies the link's media value without validating it.
onload_media_unchecked(attributes) ==
    LET m == Attributes_get(attributes, S_media)
    IN IF m /= Nil THEN m ELSE S_all

\* The media value the Media strategy writes into the onload handler: the
\* link's own if it has one and it is a valid media query, else "all".
onload_media(attributes) ==
    LET m == Attributes_get(attributes, S_media)
    IN IF m /= Nil /\ is_valid_media_query(m) THEN m ELSE S_all

\* format!("this.media='{}'", media)
this_media(m) == S_this \o S_media \o <<"=">> \o S_quote \o m \o S_quote

\* "this.rel='stylesheet'"
this_rel == S_this \o S_rel \o <<"=">> \o S_quote \o S_stylesheet \o S_quote

\* "this.title='';this.rel='stylesheet'"
this_title_rel == S_this \o S_title \o <<"=">> \o S_quote \o S_quote \o <<";">> \o this_rel

\* A variant that sets rel and leaves out as.
update_link_rel_only(attributes) == Attributes_insert(attributes, S_rel, S_preload)

\* The closure update_link_to_preload.
update_link_to_preload(attributes) ==
    Attributes_insert(Attributes_insert(attributes, S_rel, S_preload), S_as, S_style)

\* get_css_asset starts with path::absolute(&options.path).unwrap(), and
\* path::absolute fails on an empty path: the call panics.
get_css_asset_panics(opts) == opts.path = <<>>

\* inline_external_stylesheet reaches get_css_asset for an href that ends in
\* ".css".
inline_external_stylesheet_panics(opts, d, link_id) ==
    LET link_href == Attributes_get(node_at(d, link_id).attributes, S_href)
    IN link_href /= Nil /\ ends_with(link_href, S_css) /\ get_css_asset_panics(opts)

\* The match on opts.preload of inline_external_stylesheet; d1 is the document
\* with the style element inserted before the link.
preload_link(opts, d1, next, link) ==
    LET clone == [link EXCEPT !.nid = next + 1,
                              !.attributes = Attributes_remove(@, S_id)]
        noscript == [new_html_element(next + 2, S_noscript, <<>>)
                        EXCEPT !.children = <<clone>>]
    IN CASE opts.preload = "BodyPreload" ->
              with_node(append_to_body(d1, clone),
                        [link EXCEPT !.attributes = update_link_to_preload(@)])
         [] opts.preload = "Body" -> append_to_body(d1, link)
         [] opts.preload = "Media" ->
              insert_before(
                with_node(d1, [link EXCEPT !.attributes =
                    Attributes_insert(Attributes_insert(@, S_media, S_print),
                                      S_onload, this_media(onload_media(link.attributes)))]),
                link.nid, noscript)
         [] opts.preload = "Swap" ->
              insert_before(
                with_node(d1, [link EXCEPT !.attributes =
                    update_link_to_preload(Attributes_insert(@, S_onload, this_rel))]),
                link.nid, noscript)
         [] opts.preload = "SwapHigh" ->
              insert_before(
                with_node(d1, [link EXCEPT !.attributes =
                    Attributes_insert(
                      Attributes_insert(
                        Attributes_insert(
                          Attributes_insert(@, S_rel,
                            S_alternate \o <<" ">> \o S_stylesheet \o <<" ">> \o S_preload),
                          S_as, S_style),
                        S_title, S_styles),
                      S_onload, this_title_rel)]),
                link.nid, noscript)
         [] OTHER -> d1

\* inline_external_stylesheet once get_css_asset has answered css.
inline_css_asset(opts, d, next, link, css) ==
    IF ~css.some THEN [doc |-> d, style |-> None]
    ELSE IF ~d.has_body
         THEN [doc |-> insert_before(d, link.nid, NewNode(next, S_style, Attributes_new(<<>>),
                                                          Some(css.value))),
               style |-> None]
    ELSE [doc |-> preload_link(opts,
                     insert_before(d, link.nid, NewNode(next, S_style, Attributes_new(<<>>),
                                                        Some(css.value))),
                     next, link),
          style |-> Some(next)]

\* inline_external_stylesheet on the link of that id.  next is the identity
\* the next created node gets.  Gives the document, and the id of the new
\* style element or None.  The style element is inserted before the body is
\* looked up: without a body it stays in the document and the call fails.
inline_external_stylesheet(os, opts, d, next, link_id) ==
    LET link_href == Attributes_get(node_at(d, link_id).attributes, S_href)
    IN IF link_href = Nil \/ ~ends_with(link_href, S_css) THEN [doc |-> d, style |-> None]
       ELSE inline_css_asset(opts, d, next, node_at(d, link_id),
                             get_css_asset(os, opts, link_href))

\* inject_style: a new style element at the end of head.
inject_style(d, next, text) ==
    append_to_head(d, NewNode(next, S_style, Attributes_new(<<>>), Some(text)))

\* inject_font_preload: the link it makes, its href the trimmed url.
font_preload_link(next, font) ==
    new_html_element(next, S_link,
        << <<S_rel, S_preload>>, <<S_as, S_font>>,
           <<S_crossorigin, S_anonymous>>, <<S_href, trim(font)>> >>)

RECURSIVE inject_font_preloads(_, _, _)
\* inject_font_preload for each font in turn: a preload link at the end of
\* head.
inject_font_preloads(d, next, fonts) ==
    IF fonts = <<>> THEN d
    ELSE inject_font_preloads(append_to_head(d, font_preload_link(next, Head(fonts))),
                              next + 1, Tail(fonts))

\* process_style starts with dom.select_first("body").unwrap(): reducing a
\* stylesheet with text in a document without a body panics.
process_style_el_panics(d, style_id) ==
    /\ node_at(d, style_id).text.some
    /\ node_at(d, style_id).text.value /= <<>>
    /\ ~d.has_body

\* A variant that goes on with an empty stylesheet when the text does not
\* parse.
process_style_el_lossy(opts, content, d, next, style_id) ==
    LET style == node_at(d, style_id)
        out == process_style(opts, content,
                             IF parse_fails(style.text.value) THEN <<>> ELSE style.text.value)
    IN IF ~style.text.some \/ style.text.value = <<>> THEN d
       ELSE with_node(inject_font_preloads(d, next, out.injected),
                      [style EXCEPT !.text = Some(out.css)])

\* process_style_el on the style element of that id: nothing for an element
\* without text or with a text that does not parse, else its text becomes
\* the reduced stylesheet.
process_style_el(opts, content, d, next, style_id) ==
    LET style == node_at(d, style_id)
        out == process_style(opts, content, style.text.value)
    IN IF ~style.text.some \/ style.text.value = <<>> THEN d
       ELSE IF parse_fails(style.text.value) THEN d
       ELSE with_node(inject_font_preloads(d, next, out.injected),
                      [style EXCEPT !.text = Some(out.css)])

RECURSIVE merge_rest(_, _, _)
\* The loop of merge_stylesheets over the remaining styles, last first:
\* each one's text is added to the sheet and the element is detached.
merge_rest(d, rest, acc) ==
    IF rest = <<>> THEN [doc |-> d, sheet |-> acc]
    ELSE LET style == rest[Len(rest)]
         IN merge_rest(detach(d, style), SubSeq(rest, 1, Len(rest) - 1),
                       acc \o text_contents(node_at(d, style)))

\* merge_stylesheets: starts from the last style of the list and stops at
\* once if that one has no text child.
merge_stylesheets(d, styles_) ==
    IF styles_ = <<>> THEN d
    ELSE LET first == node_at(d, styles_[Len(styles_)])
         IN IF ~first.text.some THEN d
            ELSE LET merged == merge_rest(d, SubSeq(styles_, 1, Len(styles_) - 1),
                                          text_contents(first))
                 IN with_node(merged.doc, [first EXCEPT !.text = Some(merged.sheet)])

RECURSIVE str_less(_, _)
\* The order of strings, byte by byte.
str_less(a, b) ==
    IF b = <<>> THEN FALSE
    ELSE IF a = <<>> THEN TRUE
    ELSE IF Head(a) = Head(b) THEN str_less(Tail(a), Tail(b))
    ELSE CharCode(Head(a)) < CharCode(Head(b))

RECURSIVE dedup_unsorted(_)
\* A variant without the sort: .dedup() alone drops repeated neighbours.
dedup_unsorted(list) ==
    IF Len(list) < 2 THEN list
    ELSE IF list[1] = list[2] THEN dedup_unsorted(Tail(list))
    ELSE <<list[1]>> \o dedup_unsorted(Tail(list))

RECURSIVE sorted_dedup(_)
\* .sorted().dedup(): the distinct entries in increasing order.
sorted_dedup(list) ==
    IF list = <<>> THEN <<>>
    ELSE LET least == CHOOSE x \in SeqToSet(list) : \A y \in SeqToSet(list) : ~str_less(y, x)
         IN <<least>> \o sorted_dedup(SelectSeq(list, LAMBDA x : x /= least))

RECURSIVE inject_additional(_, _, _, _, _)
\* get_additional_stylesheets over the sorted hrefs: each stylesheet found
\* is injected as a style element at the end of head.
inject_additional(os, opts, acc, next, hrefs) ==
    IF hrefs = <<>> THEN acc
    ELSE LET css == get_css_asset(os, opts, Head(hrefs))
         IN inject_additional(os, opts,
              IF css.some
              THEN [doc |-> inject_style(acc.doc, next, css.value),
                    styles |-> Append(acc.styles, next)]
              ELSE acc,
              next + 1, Tail(hrefs))

\* --------------------------------------------------- process_impl, stepwise

S_bad_media == <<"'", ",", "x">>

\* The style and link elements a generated head is drawn from, in a fixed
\* order, as they stand in the markup.
HeadChoices ==
    << NewNode(0, S_style, Attributes_new(<<>>), Some(<<RuleChoices[2], RuleChoices[3]>>)),
       new_html_element(0, S_link,                     \* <link id=i rel=stylesheet
           << <<S_id, S_i>>, <<S_rel, S_stylesheet>>,  \*   href=/s.css media=screen>
              <<S_href, <<"/", "s">> \o S_css>>, <<S_media, S_screen>> >>),
       NewNode(0, S_style, Attributes_new(<<>>), Some(<<RuleChoices[1], RuleChoices[4]>>)),
       new_html_element(0, S_link,                     \* <link rel=stylesheet href=/b.css
           << <<S_rel, S_stylesheet>>,                 \*   media="',x">
              <<S_href, <<"/", "b">> \o S_css>>, <<S_media, S_bad_media>> >>),
       new_html_element(0, S_link,                     \* <link rel=stylesheet href=/n.css>
           << <<S_rel, S_stylesheet>>, <<S_href, <<"/", "n">> \o S_css>> >>),
       new_html_element(0, S_link,                     \* <link rel=Stylesheet href=/s.css>
           << <<S_rel, <<"S">> \o Tail(S_stylesheet)>>, <<S_href, <<"/", "s">> \o S_css>> >>),
       new_html_element(0, S_style, <<>>),             \* <style></style>
       NewNode(0, S_style, Attributes_new(<<>>),       \* a style that does not parse
               Some(<<RuleChoices[2], InvalidRule>>)),
       new_html_element(0, S_link,                     \* <link rel=stylesheet href=../x.css>
           << <<S_rel, S_stylesheet>>, <<S_href, <<".", ".", "/", "x">> \o S_css>> >>),
       new_html_element(0, S_link,                     \* <link rel=stylesheet href=//s.css>
           << <<S_rel, S_stylesheet>>, <<S_href, <<"/", "/", "s">> \o S_css>> >>),
       new_html_element(0, S_link,                     \* <link rel=stylesheet href=/s>
           << <<S_rel, S_stylesheet>>, <<S_href, <<"/", "s">>>> >>),
       NewNode(0, S_style, Attributes_new(<<>>),       \* :link{..} p:last-child{..}
               Some(<<RuleChoices[13], RuleChoices[14]>>)) >>

Htmls ==
    { Document(h, <<>>, TRUE) : h \in Selections(HeadChoices, MaxNodes) }
    \cup { Document(h, <<>>, FALSE) : h \in Selections(HeadChoices, MaxNodes - 1) }

\* The documents' other content: an empty body, or one element below it.
PipeDoms == { d \in StyleDoms : \A e \in DOMAIN d : d[e].ns = "html" /\ d[e].local /= S_div }

PipeOptions ==
    { [DefaultOptions EXCEPT !.path = S_path_abs, !.preload = p,
                             !.merge_stylesheets = m, !.additional_stylesheets = a] :
        p \in PreloadStrategies, m \in BOOLEAN,
        a \in { <<>>, << <<"/", "s">> \o S_css, <<"/", "b">> \o S_css, <<"/", "s">> \o S_css >> } }
    \cup { [DefaultOptions EXCEPT !.path = S_path_abs, !.external = e,
                                  !.reduce_inline_styles = r, !.inline_fonts = f] :
             e \in BOOLEAN, r \in BOOLEAN, f \in BOOLEAN }
    \cup { [DefaultOptions EXCEPT !.path = S_path_abs, !.preload = p,
                                  !.noscript_fallback = FALSE] :
             p \in PreloadStrategies }
    \cup { [DefaultOptions EXCEPT !.additional_stylesheets = a] :
             a \in { <<>>, << <<"/", "s">> \o S_css >> } }

PipeIdle ==
    /\ html = EmptyDocument /\ doc = EmptyDocument
    /\ styles = <<>> /\ links = <<>> /\ inlined = {} /\ cursor = 0 /\ next_id = 0
    /\ premerge = EmptyDocument /\ outputs = <<>>

PipeInit ==
    /\ pc = "html"
    /\ dom \in PipeDoms
    /\ options \in PipeOptions
    /\ html \in Htmls
    /\ html.has_body \/ Len(dom) = BodyId
    /\ doc = EmptyDocument
    /\ styles = <<>> /\ links = <<>> /\ inlined = {} /\ cursor = 0 /\ next_id = 0
    /\ premerge = EmptyDocument /\ outputs = <<>>

\* process_impl: the markup is parsed.
ParseHtml ==
    /\ pc = "html"
    /\ doc' = parse_html(html)
    /\ next_id' = Len(all_nodes(html)) + 1
    /\ styles' = <<>> /\ links' = <<>> /\ inlined' = {} /\ cursor' = 0
    /\ pc' = "inline"
    /\ UNCHANGED <<html, premerge, outputs>>
    /\ pipeFrame

\* process_impl: the inline styles are listed, if they are to be reduced.
GetInlineStylesheets ==
    /\ pc = "inline"
    /\ styles' = IF options.reduce_inline_styles THEN select_styles(doc) ELSE <<>>
    /\ pc' = "external"
    /\ UNCHANGED <<html, doc, links, inlined, cursor, next_id, premerge, outputs>>
    /\ pipeFrame

\* get_external_stylesheets: the stylesheet links are listed.
GetExternalStylesheets ==
    /\ pc = "external"
    /\ links' = IF options.external THEN select_stylesheet_links(doc) ELSE <<>>
    /\ pc' = "links"
    /\ UNCHANGED <<html, doc, styles, inlined, cursor, next_id, premerge, outputs>>
    /\ pipeFrame

\* get_external_stylesheets: the next link is inlined.
InlineExternalStylesheet ==
    /\ pc = "links"
    /\ links /= <<>>
    /\ IF inline_external_stylesheet_panics(options, doc, Head(links))
       THEN /\ pc' = "aborted"
            /\ UNCHANGED <<doc, styles, inlined, links, next_id>>
       ELSE /\ \E res \in {inline_external_stylesheet(platform, options, doc, next_id,
                                                        Head(links))} :
                  /\ doc' = res.doc
                  /\ styles' = IF res.style.some THEN Append(styles, res.style.value)
                               ELSE styles
                  /\ inlined' = IF res.style.some /\ Head(links) \in node_ids(res.doc)
                                THEN inlined \cup {Head(links)} ELSE inlined
            /\ links' = Tail(links)
            /\ next_id' = next_id + 3
            /\ pc' = pc
    /\ UNCHANGED <<html, cursor, premerge, outputs>>
    /\ pipeFrame

\* get_additional_stylesheets, once the links are done.
GetAdditionalStylesheets ==
    /\ pc = "links"
    /\ links = <<>>
    /\ \E hrefs \in {sorted_dedup(options.additional_stylesheets)} :
          IF hrefs /= <<>> /\ get_css_asset_panics(options)
          THEN /\ pc' = "aborted"
               /\ UNCHANGED <<doc, styles, next_id, cursor>>
          ELSE /\ \E res \in {inject_additional(platform, options,
                                                [doc |-> doc, styles |-> styles],
                                                next_id, hrefs)} :
                     doc' = res.doc /\ styles' = res.styles
               /\ next_id' = next_id + Len(hrefs)
               /\ cursor' = 1
               /\ pc' = "process"
    /\ UNCHANGED <<html, links, inlined, premerge, outputs>>
    /\ pipeFrame

\* process_impl: the next listed style element is reduced.
ProcessStyleEl ==
    /\ pc = "process"
    /\ cursor <= Len(styles)
    /\ IF process_style_el_panics(doc, styles[cursor])
       THEN /\ pc' = "aborted"
            /\ UNCHANGED <<doc, next_id, cursor>>
       ELSE /\ doc' = process_style_el(options, live_dom(dom, doc), doc, next_id,
                                        styles[cursor])
            /\ next_id' = next_id + (Len(all_nodes(doc')) - Len(all_nodes(doc)))
            /\ cursor' = cursor + 1
            /\ pc' = pc
    /\ UNCHANGED <<html, styles, links, inlined, premerge, outputs>>
    /\ pipeFrame

\* process_impl: the styles are merged, if asked for, and the document is
\* serialised.
MergeAndSerialize ==
    /\ pc = "process"
    /\ cursor > Len(styles)
    /\ premerge' = doc
    /\ doc' = IF options.merge_stylesheets THEN merge_stylesheets(doc, styles) ELSE doc
    /\ outputs' = Append(outputs, serialize(doc'))
    /\ pc' = "done"
    /\ UNCHANGED <<html, styles, links, inlined, cursor, next_id>>
    /\ pipeFrame

\* The output of the first run is processed again.
ProcessAgain ==
    /\ pc = "done"
    /\ Len(outputs) = 1
    /\ html' = outputs[1]
    /\ pc' = "html"
    /\ UNCHANGED <<doc, styles, links, inlined, cursor, next_id, premerge, outputs>>
    /\ pipeFrame

\* ------------------------------------------------- StyleBloom push and pop

\* html > body > e1 > e2 > ... : n elements of one kind, each the only child
\* of the one before.
ChainDom(n, label) ==
    DomOf(n, [i \in (BodyId + 1)..(BodyId + n) |-> i - 1],
             [i \in (BodyId + 1)..(BodyId + n) |-> label])

\* Elements whose class value str::split cuts into empty pieces: class=""
\* and class="a  b".
EmptyClassChoices ==
    { [ns |-> "html", local |-> S_p, pairs |-> << <<S_class, <<>> >> >>],
      [ns |-> "html", local |-> S_div,
       pairs |-> << <<S_class, <<"a", " ", " ", "b">> >>, <<S_lang, <<"D">> >> >>] }

\* The documents a StyleBloom is walked over: the small trees, the chains, and
\* the bodies with one element of an empty class.
BloomDoms ==
    Doms \cup { ChainDom(MaxChain, label) : label \in ElementChoices }
         \cup { ChainDom(1, label) : label \in EmptyClassChoices }

\* The element on top of the stack; 0 on an empty stack.
bloom_top(b) == IF b.elements = <<>> THEN 0 ELSE b.elements[Len(b.elements)].element

\* In the walk of a StyleBloom pc names the operation done last.
BloomOps == {"bloom", "bloom_push", "bloom_pop", "bloom_clear", "bloom_rebuild"}

BloomInit ==
    /\ pc = "bloom"
    /\ dom \in BloomDoms
    /\ root = 0 /\ selectors = <<>> /\ rule_set = RuleSet_new /\ bloom = StyleBloom_new
    /\ stack = <<>> /\ rules = {} /\ panicked = FALSE /\ result = {}
    /\ debug_assertions \in BOOLEAN

\* StyleBloom::push of an element, whatever is on the stack: any element of
\* a small document while fewer than MaxPush frames are stacked, and a child
\* of the top element at any depth, which is how a chain is walked down.  A
\* debug build asserts that the first element pushed has no parent, and
\* panics if it has.
BloomPush ==
    /\ pc \in BloomOps
    /\ \E e \in Nodes(dom) :
          /\ \/ Len(bloom.elements) < MaxPush /\ Len(dom) <= BodyId + MaxElems
             \/ parent_element(dom, e) = bloom_top(bloom)
          /\ IF debug_assertions /\ ~push_assertion(bloom, dom, e)
             THEN panicked' = TRUE /\ pc' = "bloom_panicked" /\ UNCHANGED bloom
             ELSE /\ bloom' = StyleBloom_push(bloom, dom, e)
                  /\ pc' = "bloom_push" /\ UNCHANGED panicked
    /\ UNCHANGED <<root, selectors, rule_set, stack, rules, debug_assertions, result>>
    /\ calcFrame

\* StyleBloom::pop, on an empty stack as well.
BloomPop ==
    /\ pc \in BloomOps
    /\ bloom' = StyleBloom_pop(bloom)
    /\ pc' = "bloom_pop"
    /\ UNCHANGED <<root, selectors, rule_set, stack, rules, panicked, debug_assertions, result>>
    /\ calcFrame

\* StyleBloom::clear
BloomClear ==
    /\ pc \in BloomOps
    /\ bloom' = StyleBloom_clear(bloom)
    /\ pc' = "bloom_clear"
    /\ UNCHANGED <<root, selectors, rule_set, stack, rules, panicked, debug_assertions, result>>
    /\ calcFrame

\* StyleBloom::rebuild for an element of the document, one of the first
\* MaxRebuild + 1 in document order (an element stands after its ancestors).
BloomRebuild ==
    /\ pc \in BloomOps
    /\ \E e \in Nodes(dom) : e <= MaxRebuild + 1 /\ bloom' = rebuild(bloom, dom, e)
    /\ pc' = "bloom_rebuild"
    /\ UNCHANGED <<root, selectors, rule_set, stack, rules, panicked, debug_assertions, result>>
    /\ calcFrame

\* ------------------------------------------------------- StyleRuleExt::id

\* The u32 values a location is drawn from: the least, the greatest, and the
\* values around the limb boundary.
U32Values == {<<0, 0>>, <<0, 1>>, <<0, 65535>>, <<1, 0>>, <<65535, 65535>>}

Locations == [source_index : U32Values, line : U32Values, column : U32Values]

IdIdle ==
    /\ loc_a = [source_index |-> <<0, 0>>, line |-> <<0, 0>>, column |-> <<0, 0>>]
    /\ loc_b = loc_a /\ id_a = None /\ id_b = None

IdInit ==
    /\ pc = "id"
    /\ loc_a \in Locations /\ loc_b \in Locations
    /\ id_a = None /\ id_b = None

\* id() of crates/critters-rs is called on both rules.  A build with overflow
\* checks, as the dev profile is, panics at an operation that overflows; a
\* build without them goes on with the wrapped value.
IdComputeSzudzik ==
    /\ pc = "id"
    /\ IF debug_assertions /\ (StyleRuleExt_id_szudzik(loc_a).overflow
                                \/ StyleRuleExt_id_szudzik(loc_b).overflow)
       THEN pc' = "aborted" /\ UNCHANGED <<id_a, id_b>>
       ELSE /\ id_a' = Some(StyleRuleExt_id_szudzik(loc_a).value)
            /\ id_b' = Some(StyleRuleExt_id_szudzik(loc_b).value)
            /\ pc' = "pair_done"
    /\ UNCHANGED <<loc_a, loc_b>>
    /\ idFrame

\* id() of src/utils.rs is called on both rules; a shift that overflows aborts
\* the call.
IdCompute ==
    /\ pc = "id"
    /\ IF \E bits \in {32, 64} : shl_overflows(as_u128(loc_a.line), bits)
       THEN pc' = "aborted" /\ UNCHANGED <<id_a, id_b>>
       ELSE /\ id_a' = Some(StyleRuleExt_id(loc_a))
            /\ id_b' = Some(StyleRuleExt_id(loc_b))
            /\ pc' = "id_done"
    /\ UNCHANGED <<loc_a, loc_b>>
    /\ idFrame

\* ----------------------------------------------------- attribute operations

\* The attribute names and values the operations are drawn from.
AttrNames == {S_class, S_id, S_lang}
AttrValues == {S_a, S_b, <<"a", " ", "b">>}

\* The pair lists Attributes::new is given: at most two pairs.
AttrPairLists ==
    UNION { [1..n -> { <<name, value>> : name \in AttrNames, value \in AttrValues }] :
              n \in 0..2 }

AttrIdle == attrs = Attributes_new(<<>>) /\ first_inserted = <<>>

\* Attributes::new
AttrInit ==
    /\ pc = "attrs"
    /\ \E pairs \in AttrPairLists :
          /\ attrs = Attributes_new(pairs)
          /\ first_inserted = Attributes_keys(Attributes_new(pairs))

\* Attributes::insert
AttrInsert ==
    /\ \E name \in AttrNames, value \in AttrValues :
          /\ attrs' = Attributes_insert(attrs, name, value)
          /\ first_inserted' = IF Attributes_contains(attrs, name) THEN first_inserted
                                ELSE Append(first_inserted, name)
    /\ attrFrame

\* Attributes::remove
AttrRemove ==
    /\ \E name \in AttrNames :
          /\ Attributes_contains(attrs, name)
          /\ attrs' = Attributes_remove(attrs, name)
          /\ first_inserted' = SelectSeq(first_inserted, LAMBDA n : n /= name)
    /\ attrFrame

\* Attributes::get_mut, and an assignment through the reference it gives.
AttrGetMut ==
    /\ \E name \in AttrNames, value \in AttrValues :
          /\ Attributes_contains(attrs, name)
          /\ attrs' = Attributes_get_mut_assign(attrs, name, value)
    /\ UNCHANGED first_inserted
    /\ attrFrame

\* Attributes::entry, and or_insert on the entry it gives.
AttrEntry ==
    /\ \E name \in AttrNames, value \in AttrValues :
          /\ attrs' = Attributes_entry_or_insert(attrs, name, value)
          /\ first_inserted' = IF Attributes_contains(attrs, name) THEN first_inserted
                                ELSE Append(first_inserted, name)
    /\ attrFrame

\* ------------------------------------------------------------ process_dir

\* The content of a file is a sequence of blocks, a block being what one read
\* or write call moves.  A block tells the text it is part of, the html of a
\* page as it was when process_dir began (of is empty) or the output of
\* process for the text of, and its place k among the n blocks of that text.
Block(of, page, k, n) == [of |-> of, page |-> page, k |-> k, n |-> n]

\* The zeros that fill a file between its end and a write beyond it.
ZeroBlock == Block(<<>>, 0, 0, 0)

\* The html of a page when process_dir begins.
OriginalText(page) == [k \in 1..MaxBlocks |-> Block(<<>>, page, k, MaxBlocks)]

\* process_impl on an html text, where it returns Ok: a text of its own, as
\* long as the html; the output for the empty html is one block.
process_text(text) ==
    LET n == IF text = <<>> THEN 1 ELSE Len(text)
    IN [k \in 1..n |-> Block(text, 0, k, n)]

\* The text is empty or the blocks of one text, all of them and in order.
whole_text(text) ==
    \/ text = <<>>
    \/ /\ Len(text) = text[1].n
       /\ \A k \in 1..Len(text) : text[k] = [text[1] EXCEPT !.k = k]

\* What process_impl can do with a text: return Ok, return Err, or panic (as
\* in C16).  For the html of a page and for the output of process for it the
\* file says which; the empty html is processed; of a text pieced together
\* from several, or processed more often, nothing is known.
process_outcomes(d, text) ==
    IF text = <<>> THEN {"ok"}
    ELSE IF \E f \in DOMAIN d : text = OriginalText(f)
         THEN { d[f].outcome : f \in { g \in DOMAIN d : text = OriginalText(g) } }
    ELSE IF \E f \in DOMAIN d : text = process_text(OriginalText(f))
         THEN { d[f].again : f \in { g \in DOMAIN d : text = process_text(OriginalText(g)) } }
    ELSE {"ok", "err", "panic"}

\* write at a place of the file: the block at that place is replaced, a
\* block beyond the end lengthens the file, zeros filling the gap.
write_at(text, at, block) ==
    [k \in 1..(IF at < Len(text) THEN Len(text) ELSE at + 1) |->
        IF k = at + 1 THEN block
        ELSE IF k <= Len(text) THEN text[k] ELSE ZeroBlock]

\* The files of the directory: the html, what process_impl does with it
\* (outcome) and with its own output for it (again), whether the file can be
\* opened for reading and for writing, and the number of blocks the file
\* system has room for.
File(page) ==
    [text |-> OriginalText(page), outcome |-> "ok", again |-> "ok",
     readable |-> TRUE, writable |-> TRUE, room |-> MaxBlocks]

FileKinds(page) ==
    { File(page),
      [File(page) EXCEPT !.again = "panic"],
      [File(page) EXCEPT !.outcome = "err"],
      [File(page) EXCEPT !.outcome = "panic"],
      [File(page) EXCEPT !.readable = FALSE],
      [File(page) EXCEPT !.writable = FALSE],
      [File(page) EXCEPT !.room = MaxBlocks - 1] }

\* Two files at most; a path names a file, and with links in the directory
\* (WalkDir follows them) two paths can name the same file.
Disks == { <<f1, f2>> : f1 \in FileKinds(1), f2 \in FileKinds(2) }
Listings == UNION { [1..n -> 1..2] : n \in 1..MaxFiles }

DirIdle ==
    /\ disk = <<>> /\ files = <<>> /\ task = <<>> /\ held = <<>> /\ offset = <<>>
    /\ written = <<>> /\ dir_result = "none"

\* process_dir_impl after locate_html_files: nothing was read yet.
DirInit ==
    /\ pc = "dir"
    /\ disk \in Disks
    /\ files \in Listings
    /\ task = [i \in DOMAIN files |-> "todo"]
    /\ held = [i \in DOMAIN files |-> <<>>]
    /\ offset = [i \in DOMAIN files |-> 0]
    /\ written = <<>> /\ dir_result = "none"

\* The closure for one path: fs::read_to_string(path).expect(..), the file
\* is opened.
DirOpen ==
    /\ pc = "dir"
    /\ \E i \in DOMAIN files :
          /\ task[i] = "todo"
          /\ task' = [task EXCEPT ![i] = IF disk[files[i]].readable
                                         THEN "reading" ELSE "panicked"]
    /\ UNCHANGED <<pc, disk, files, held, offset, written, dir_result>>
    /\ dirFrame

\* fs::read_to_string, one read: the next block of the file as it is now, or
\* its end.  At the end the bytes read are checked to be a string, which the
\* blocks of one text in full are; otherwise they need not be.
DirRead ==
    /\ pc = "dir"
    /\ \E i \in DOMAIN files :
          /\ task[i] = "reading"
          /\ IF offset[i] < Len(disk[files[i]].text)
             THEN /\ held' = [held EXCEPT ![i] = Append(@, disk[files[i]].text[offset[i] + 1])]
                  /\ offset' = [offset EXCEPT ![i] = @ + 1]
                  /\ UNCHANGED task
             ELSE /\ \E t \in IF whole_text(held[i]) THEN {"read"} ELSE {"read", "panicked"} :
                        task' = [task EXCEPT ![i] = t]
                  /\ UNCHANGED <<held, offset>>
    /\ UNCHANGED <<pc, disk, files, written, dir_result>>
    /\ dirFrame

\* The closure for one path: self.process_impl(&html); an Err is logged and
\* the closure returns.
DirProcess ==
    /\ pc = "dir"
    /\ \E i \in DOMAIN files :
          /\ task[i] = "read"
          /\ \E o \in process_outcomes(disk, held[i]) :
                CASE o = "ok" ->
                        /\ held' = [held EXCEPT ![i] = process_text(@)]
                        /\ task' = [task EXCEPT ![i] = "processed"]
                  [] o = "err" ->
                        /\ task' = [task EXCEPT ![i] = "skipped"]
                        /\ UNCHANGED held
                  [] o = "panic" ->
                        /\ task' = [task EXCEPT ![i] = "panicked"]
                        /\ UNCHANGED held
    /\ UNCHANGED <<pc, disk, files, offset, written, dir_result>>
    /\ dirFrame

\* The closure for one path: fs::write(path, processed).expect(..), the file
\* is opened for writing, which empties it.
DirTruncate ==
    /\ pc = "dir"
    /\ \E i \in DOMAIN files :
          /\ task[i] = "processed"
          /\ IF disk[files[i]].writable
             THEN /\ disk' = [disk EXCEPT ![files[i]].text = <<>>]
                  /\ offset' = [offset EXCEPT ![i] = 0]
                  /\ task' = [task EXCEPT ![i] = "writing"]
             ELSE /\ task' = [task EXCEPT ![i] = "panicked"]
                  /\ UNCHANGED <<disk, offset>>
    /\ UNCHANGED <<pc, files, held, written, dir_result>>
    /\ dirFrame

\* fs::write, one write: the next block of the processed text goes to the
\* file at the offset the closure has got to, or the file system is full;
\* with the last block the closure is done.
DirWrite ==
    /\ pc = "dir"
    /\ \E i \in DOMAIN files :
          /\ task[i] = "writing"
          /\ IF offset[i] >= disk[files[i]].room
             THEN /\ task' = [task EXCEPT ![i] = "panicked"]
                  /\ UNCHANGED <<disk, offset, written>>
             ELSE /\ disk' = [disk EXCEPT ![files[i]].text =
                                  write_at(@, offset[i], held[i][offset[i] + 1])]
                  /\ offset' = [offset EXCEPT ![i] = @ + 1]
                  /\ IF offset[i] + 1 = Len(held[i])
                     THEN /\ task' = [task EXCEPT ![i] = "done"]
                          /\ written' = Append(written, i)
                     ELSE UNCHANGED <<task, written>>
    /\ UNCHANGED <<pc, files, held, dir_result>>
    /\ dirFrame

\* A panic of a closure unwinds the sequential run of closures it is part
\* of: the paths after it in that run are never started.  How the paths are
\* split into runs is up to rayon.
DirUnwind ==
    /\ pc = "dir"
    /\ \E i \in DOMAIN files :
          /\ task[i] = "todo"
          /\ \E j \in 1..(i - 1) : task[j] = "panicked"
          /\ task' = [task EXCEPT ![i] = "dropped"]
    /\ UNCHANGED <<pc, disk, files, held, offset, written, dir_result>>
    /\ dirFrame

\* for_each is over: it resumes a closure's panic, or process_dir_impl
\* returns Ok.
DirFinish ==
    /\ pc = "dir"
    /\ \A i \in DOMAIN files : task[i] \in {"done", "skipped", "panicked", "dropped"}
    /\ dir_result' = IF \E i \in DOMAIN files : task[i] = "panicked" THEN "panicked" ELSE "ok"
    /\ pc' = "dir_done"
    /\ UNCHANGED <<disk, files, task, held, offset, written>>
    /\ dirFrame

\* ---------------------------------------------------------- specifications

\* The operations that are not under way.
OtherIdle == AttrIdle /\ IdIdle /\ DirIdle

vars == <<pc, dom, options, calcVars, styleVars, assetVars, pipeVars, attrVars, idVars, dirVars>>

\* process on a POSIX system.
Init == PipeInit /\ CalcIdle /\ StyleIdle /\ AssetIdle /\ OtherIdle

Next ==
    \/ ParseHtml
    \/ GetInlineStylesheets
    \/ GetExternalStylesheets
    \/ InlineExternalStylesheet
    \/ GetAdditionalStylesheets
    \/ ProcessStyleEl
    \/ MergeAndSerialize
    \/ ProcessAgain

Spec == Init /\ [][Next]_vars

InitCalc ==
    CalcInit /\ options = DefaultOptions /\ StyleIdle /\ AssetIdle /\ PipeIdle /\ OtherIdle

NextCalc == CalcStart \/ CalcStep \/ CalcFinish

SpecCalc == InitCalc /\ [][NextCalc]_vars

InitStyle == StyleInit /\ CalcIdle /\ AssetIdle /\ PipeIdle /\ OtherIdle

NextStyle == StyleFirstPass \/ StyleRetain

SpecStyle == InitStyle /\ [][NextStyle]_vars

InitAsset == AssetInit /\ CalcIdle /\ StyleIdle /\ PipeIdle /\ OtherIdle

NextAsset == AssetResolve \/ AssetRead

SpecAsset == InitAsset /\ [][NextAsset]_vars

InitBloom ==
    BloomInit /\ options = DefaultOptions /\ StyleIdle /\ AssetIdle /\ PipeIdle /\ OtherIdle

NextBloom == BloomPush \/ BloomPop \/ BloomClear \/ BloomRebuild

SpecBloom == InitBloom /\ [][NextBloom]_vars

InitAttr ==
    /\ AttrInit /\ dom = DomOf(0, <<>>, <<>>) /\ options = DefaultOptions
    /\ CalcIdle /\ StyleIdle /\ AssetIdle /\ PipeIdle /\ IdIdle /\ DirIdle

NextAttr == AttrInsert \/ AttrRemove \/ AttrGetMut \/ AttrEntry

SpecAttr == InitAttr /\ [][NextAttr]_vars

InitId ==
    /\ IdInit /\ dom = DomOf(0, <<>>, <<>>) /\ options = DefaultOptions
    /\ CalcAtRest /\ debug_assertions \in BOOLEAN /\ StyleIdle /\ AssetIdle /\ PipeIdle /\ AttrIdle /\ DirIdle

NextId == IdCompute \/ IdComputeSzudzik

SpecId == InitId /\ [][NextId]_vars

InitDir ==
    /\ DirInit /\ dom = DomOf(0, <<>>, <<>>) /\ options = DefaultOptions
    /\ CalcIdle /\ StyleIdle /\ AssetIdle /\ PipeIdle /\ AttrIdle /\ IdIdle

NextDir ==
    \/ DirOpen
    \/ DirRead
    \/ DirProcess
    \/ DirTruncate
    \/ DirWrite
    \/ DirUnwind
    \/ DirFinish

SpecDir == InitDir /\ [][NextDir]_vars

\* ------------------------------------------------------------------ claims

\* The naive reference: the selectors that match some element of root's
\* inclusive subtree.
naive_calculate_styles_for_tree(d, r, sels) ==
    { sel \in SeqToSet(sels) : select_any(d, r, sel) }

\* C3: calculate_styles_for_tree returns exactly the selectors that match
\* some element of root's inclusive subtree under naive matching.
C3_IndexedEqualsNaive ==
    pc = "calc_done" => result = naive_calculate_styles_for_tree(dom, root, selectors)

\* The selectors of a rule that match in the body subtree or are trivially
\* retained, in the rule's order.
used_selectors(d, rule) == SelectSeq(rule.selectors, LAMBDA sel : selector_is_used(d, sel))

\* The top-level rules of one type in a stylesheet text.
rules_of_type(text, type) == SelectSeq(text, LAMBDA rule : rule.type = type)

\* C1: in the reduced stylesheet every selector of every top-level style rule
\* matches an element of the body subtree or is trivially retained, so a
\* style rule none of whose selectors match is absent, wherever it stands.
C1_OnlyUsedSelectorsRemain ==
    pc = "style_done" =>
        \A i \in 1..Len(reduced.css) :
            reduced.css[i].type = "Style" =>
                /\ reduced.css[i].selectors /= <<>>
                /\ \A k \in 1..Len(reduced.css[i].selectors) :
                       selector_is_used(dom, reduced.css[i].selectors[k])

\* C2: the style rules of the reduced stylesheet are the style rules of the
\* source with at least one used selector, in source order, each with its
\* declarations and with its unmatched and invalid selectors dropped.
C2_MatchedRulesRetained ==
    pc = "style_done" =>
        LET source == rules_of_type(sheet, "Style")
            expected == [i \in 1..Len(source) |->
                            [source[i] EXCEPT !.selectors = used_selectors(dom, source[i])]]
        IN rules_of_type(reduced.css, "Style")
             = SelectSeq(expected, LAMBDA rule : rule.selectors /= <<>>)

\* The keyframe names referenced by the animation and animation-name
\* declarations of the style rules of a stylesheet text.
referenced_keyframes(text) ==
    UNION { UNION { keyframe_tokens(text[i].declarations[k]) :
                      k \in 1..Len(text[i].declarations) } :
              i \in { j \in 1..Len(text) : text[j].type = "Style" } }

\* C8: under the Critical strategy a top-level @keyframes rule is retained
\* iff a surviving style rule names it in animation or animation-name.
C8_CriticalKeyframes ==
    (pc = "style_done" /\ options.keyframes = "Critical") =>
        \A i \in 1..Len(sheet) :
            sheet[i].type = "Keyframes" =>
                (sheet[i] \in SeqToSet(reduced.css)
                    <=> sheet[i].name \in referenced_keyframes(reduced.css))

\* C9: under the All strategy every top-level @keyframes rule is retained,
\* under the None strategy none is.
C9_KeyframesAllNone ==
    pc = "style_done" =>
        /\ options.keyframes = "All" =>
              rules_of_type(reduced.css, "Keyframes") = rules_of_type(sheet, "Keyframes")
        /\ options.keyframes = "None" => rules_of_type(reduced.css, "Keyframes") = <<>>

RECURSIVE surviving_fonts(_)
\* The font-family values of the style rules of a stylesheet text, collected
\* in order.
surviving_fonts(text) ==
    IF text = <<>> THEN <<>>
    ELSE LET rest == surviving_fonts(SubSeq(text, 1, Len(text) - 1))
             last == text[Len(text)]
         IN IF last.type = "Style" THEN collect_fonts(last.declarations, rest) ELSE rest

\* The font-family value of a @font-face rule.
font_face_family(rule) == font_face_scan(rule.declarations, [href |-> Nil, family |-> Nil]).family

\* C10: a top-level @font-face rule is retained iff inline_fonts is enabled
\* and its family is a substring of the font-family values collected from
\* the surviving style rules.
C10_FontFaceRetention ==
    pc = "style_done" =>
        \A i \in 1..Len(sheet) :
            sheet[i].type = "FontFace" =>
                (sheet[i] \in SeqToSet(reduced.css)
                    <=> /\ options.inline_fonts
                        /\ contains(surviving_fonts(reduced.css), font_face_family(sheet[i])))

\* Is the location inside the base directory?
within_base(os, opts, at) ==
    starts_with(at, location(path_absolute(os, Path_new(opts.path))).value)

\* C6: get_css_asset reads and returns only files located under the base
\* path; an href that resolves outside it, ".." segments included, is
\* rejected with None and nothing is read.
C6_AssetsStayUnderBase ==
    pc = "asset_done" =>
        /\ \A at \in reads : within_base(platform, options, at)
        /\ asset.some => \E at \in reads : within_base(platform, options, at)

RECURSIVE concat_texts(_)
\* The texts of the style elements, one after the other.
concat_texts(nodes) ==
    IF nodes = <<>> THEN <<>>
    ELSE text_contents(Head(nodes)) \o concat_texts(Tail(nodes))

\* The listed style elements that stand in a document, in document order.
handled_styles(d) == SelectSeq(all_nodes(d), LAMBDA n : n.nid \in SeqToSet(styles))

\* C4: with merge_stylesheets on, exactly one of the style elements the run
\* reduced is left in the document, and its text is the reduced texts of all
\* of them, concatenated in document order.
C4_MergedInDocumentOrder ==
    (pc = "done" /\ options.merge_stylesheets /\ styles /= <<>>) =>
        /\ Len(handled_styles(doc)) = 1
        /\ text_contents(handled_styles(doc)[1]) = concat_texts(handled_styles(premerge))

\* C5: processing the output of process again gives the same markup.
C5_Idempotent ==
    (pc = "done" /\ Len(outputs) > 1) => outputs[Len(outputs)] = outputs[1]

\* C7: under the Media strategy every inlined link ends with media=print
\* and onload=this.media='M', M being the media value the link came with if
\* that is a valid media query and all otherwise; an invalid media value
\* never appears in the handler.
C7_MediaOnloadValidated ==
    (pc = "done" /\ options.preload = "Media") =>
        \A nid \in inlined :
            LET m == Attributes_get(node_at(parse_html(html), nid).attributes, S_media)
                link == node_at(doc, nid)
                onload == Attributes_get(link.attributes, S_onload)
            IN /\ Attributes_get(link.attributes, S_media) = S_print
               /\ onload = this_media(IF m /= Nil /\ is_valid_media_query(m) THEN m ELSE S_all)
               /\ (m /= Nil /\ ~is_valid_media_query(m)) => ~contains(onload, m)

\* A run under Media that inlined a link with a valid media value and one
\* with an invalid one.
C7_Witness ==
    /\ pc = "done" /\ options.preload = "Media"
    /\ \E a, b \in inlined :
          LET ma == Attributes_get(node_at(parse_html(html), a).attributes, S_media)
              mb == Attributes_get(node_at(parse_html(html), b).attributes, S_media)
          IN /\ ma = S_screen
             /\ mb = S_bad_media
             /\ Attributes_get(node_at(doc, a).attributes, S_onload) = this_media(S_screen)
             /\ Attributes_get(node_at(doc, b).attributes, S_onload) = this_media(S_all)

\* The first url(..) entry of a src value, read off the value itself.
src_first_url(src) ==
    IF \E k \in 1..Len(src) : src[k].kind = "url"
    THEN src[CHOOSE k \in 1..Len(src) :
                 /\ src[k].kind = "url"
                 /\ \A j \in 1..(k - 1) : src[j].kind /= "url"].value
    ELSE Nil

\* The src descriptors of a @font-face rule, in order.
src_descriptors(rule) == SelectSeq(rule.declarations, LAMBDA p : p.property = "src")

\* The url a @font-face rule is loaded from: the first url(..) of its last
\* src descriptor, which is the one that applies.
font_face_url(rule) ==
    LET srcs == src_descriptors(rule)
    IN IF srcs = <<>> THEN Nil ELSE src_first_url(srcs[Len(srcs)].value)

\* What process_style does: with preload_fonts it calls inject_font_preload
\* once per distinct url, as written, that is the first url(..) of the last
\* src descriptor of one of the @font-face rules, and for no other url;
\* without preload_fonts it never calls it.
C11_FontPreloads ==
    pc = "style_done" =>
        LET faces == rules_of_type(sheet, "FontFace")
            urls == { font_face_url(faces[k]) : k \in 1..Len(faces) } \ {Nil}
        IN IF options.preload_fonts
           THEN /\ SeqToSet(reduced.injected) = urls
                /\ Len(reduced.injected) = Cardinality(urls)
           ELSE reduced.injected = <<>>

\* The href attributes of the font preload links appended to head, in order.
preload_hrefs ==
    [k \in 1..Len(reduced.injected) |->
        Attributes_get(font_preload_link(0, reduced.injected[k]).attributes, S_href)]

\* C11: with preload_fonts, reducing a stylesheet appends one font preload
\* link with href U for each distinct U that is the first url(..) of a src
\* descriptor of one of its @font-face rules, never two links with one href,
\* and no other font preload link; without preload_fonts it appends none.
C11_PreloadPerSrc ==
    pc = "style_done" =>
        LET faces == rules_of_type(sheet, "FontFace")
            urls == UNION { { src_first_url(src_descriptors(faces[k])[j].value) :
                                j \in 1..Len(src_descriptors(faces[k])) } :
                            k \in 1..Len(faces) } \ {Nil}
        IN IF options.preload_fonts
           THEN /\ SeqToSet(preload_hrefs) = urls
                /\ Len(preload_hrefs) = Cardinality(urls)
           ELSE preload_hrefs = <<>>

\* Two @font-face rules of the stylesheet load from the same url, one of them
\* listing a second url after it, and one preload was injected for both.
C11_Witness ==
    /\ pc = "style_done"
    /\ options.preload_fonts
    /\ LET faces == rules_of_type(sheet, "FontFace")
       IN /\ Len(faces) = 2
          /\ font_face_url(faces[1]) = font_face_url(faces[2])
          /\ \E j \in 1..Len(faces[1].declarations) :
                /\ faces[1].declarations[j].property = "src"
                /\ Cardinality({ i \in 1..Len(faces[1].declarations[j].value) :
                                   faces[1].declarations[j].value[i].kind = "url" }) = 2
    /\ reduced.injected = <<S_url1>>

\* The place of a node among the nodes of a document, 0 when it is not there.
index_of(d, nid) ==
    IF nid \in node_ids(d)
    THEN CHOOSE k \in 1..Len(all_nodes(d)) : all_nodes(d)[k].nid = nid
    ELSE 0

\* The node that stands immediately before a node of the document.
node_before(d, nid) ==
    IF index_of(d, nid) > 1 THEN all_nodes(d)[index_of(d, nid) - 1]
    ELSE NewNode(0, Nil, Attributes_new(<<>>), None)

\* The link as it stood in the markup the run was given.
original_link(nid) == node_at(parse_html(html), nid)

\* The links the run inlined, in document order.
inlined_links == SelectSeq(all_nodes(parse_html(html)), LAMBDA n : n.nid \in inlined)

\* A stylesheet text holds only critical rules: every selector of every style
\* rule matches in the body subtree or is trivially retained.
only_critical(text) ==
    \A k \in 1..Len(text) :
        text[k].type = "Style" =>
            /\ text[k].selectors /= <<>>
            /\ \A j \in 1..Len(text[k].selectors) :
                  selector_is_used(live_dom(dom, premerge), text[k].selectors[j])

\* The links of the run under BodyPreload: each original stays where it was,
\* now rel=preload as=style, with a style element right before it, and the
\* clones (the link's attributes without id) end body in the links' order.
C12_LinksAndClones ==
    (pc = "done" /\ Len(outputs) = 1 /\ options.preload = "BodyPreload") =>
        /\ \A nid \in inlined :
              LET link == node_at(premerge, nid)
                  was == original_link(nid).attributes
              IN /\ link.attributes =
                       Attributes_insert(Attributes_insert(was, S_rel, S_preload), S_as, S_style)
                 /\ Attributes_get(link.attributes, S_href) = Attributes_get(was, S_href)
                 /\ node_before(premerge, nid).local = S_style
                 /\ node_before(premerge, nid).nid \in SeqToSet(styles)
                 /\ \A other \in (node_ids(parse_html(html)) \cap node_ids(premerge)) \ {nid} :
                       index_of(parse_html(html), other) < index_of(parse_html(html), nid)
                           <=> index_of(premerge, other) < index_of(premerge, nid)
        /\ Len(premerge.body) >= Len(inlined_links)
        /\ \A k \in 1..Len(inlined_links) :
              LET clone == premerge.body[Len(premerge.body) - Len(inlined_links) + k]
                  was == inlined_links[k].attributes
              IN /\ clone.local = S_link
                 /\ clone.attributes = Attributes_remove(was, S_id)
                 /\ ~Attributes_contains(clone.attributes, S_id)
                 /\ to_ascii_lowercase(Attributes_get(clone.attributes, S_rel)) = S_stylesheet
                 /\ Attributes_get(clone.attributes, S_href) = Attributes_get(was, S_href)

\* C12: under BodyPreload every inlined link has its clone, without id and
\* with rel=stylesheet and href kept, at the end of body; the original stays in
\* place with rel=preload and as=style; and the style element inserted right
\* before the original holds only critical rules.
C12_BodyPreload ==
    /\ C12_LinksAndClones
    /\ (pc = "done" /\ Len(outputs) = 1 /\ options.preload = "BodyPreload") =>
          \A nid \in inlined : only_critical(text_contents(node_before(premerge, nid)))

\* The noscript elements that stand immediately before a node.
noscript_before(d, nid) ==
    IF node_before(d, nid).local = S_noscript THEN <<node_before(d, nid)>> ELSE <<>>

\* C13: an inlined link has a noscript element immediately before it, holding
\* a clone of the link as it was (id removed), exactly when the strategy is
\* Media, Swap or SwapHigh and noscript_fallback is on; otherwise the
\* document has no noscript element the run created.
C13_NoscriptIffFallback ==
    (pc = "done" /\ Len(outputs) = 1) =>
        \A nid \in inlined :
            IF options.preload \in {"Media", "Swap", "SwapHigh"} /\ options.noscript_fallback
            THEN /\ noscript_before(doc, nid) /= <<>>
                 /\ Len(noscript_before(doc, nid)[1].children) = 1
                 /\ noscript_before(doc, nid)[1].children[1].local = S_link
                 /\ noscript_before(doc, nid)[1].children[1].attributes =
                        Attributes_remove(original_link(nid).attributes, S_id)
            ELSE \A k \in 1..Len(all_nodes(doc)) :
                    all_nodes(doc)[k].local = S_noscript =>
                        all_nodes(doc)[k].nid \in node_ids(parse_html(html))

\* The attributes of a link are as they were, but for the named ones.
unchanged_but(now, was, names) ==
    /\ \A k \in 1..Len(was.map) :
          was.map[k].local \notin names =>
              Attributes_get(now, was.map[k].local) = was.map[k].value
    /\ \A k \in 1..Len(now.map) :
          now.map[k].local \notin names => Attributes_contains(was, now.map[k].local)

\* C14: an inlined link ends, under Swap, with rel=preload, as=style and
\* onload=this.rel='stylesheet', and under SwapHigh with rel="alternate
\* stylesheet preload", as=style, title=styles and
\* onload=this.title='';this.rel='stylesheet'; href and every other attribute
\* it came with are as they were.
C14_SwapAttributes ==
    (pc = "done" /\ Len(outputs) = 1) =>
        \A nid \in inlined :
            LET now == node_at(doc, nid).attributes
                was == original_link(nid).attributes
                rel_stylesheet == <<"t", "h", "i", "s", ".", "r", "e", "l", "=", "'",
                                    "s", "t", "y", "l", "e", "s", "h", "e", "e", "t", "'">>
                title_empty == <<"t", "h", "i", "s", ".", "t", "i", "t", "l", "e", "=", "'", "'", ";">>
            IN /\ options.preload = "Swap" =>
                    /\ Attributes_get(now, S_rel) = <<"p", "r", "e", "l", "o", "a", "d">>
                    /\ Attributes_get(now, S_as) = <<"s", "t", "y", "l", "e">>
                    /\ Attributes_get(now, S_onload) = rel_stylesheet
                    /\ Attributes_get(now, S_href) = Attributes_get(was, S_href)
                    /\ unchanged_but(now, was, {S_rel, S_as, S_onload})
               /\ options.preload = "SwapHigh" =>
                    /\ Attributes_get(now, S_rel) =
                           <<"a", "l", "t", "e", "r", "n", "a", "t", "e", " ",
                             "s", "t", "y", "l", "e", "s", "h", "e", "e", "t", " ",
                             "p", "r", "e", "l", "o", "a", "d">>
                    /\ Attributes_get(now, S_as) = <<"s", "t", "y", "l", "e">>
                    /\ Attributes_get(now, S_title) = <<"s", "t", "y", "l", "e", "s">>
                    /\ Attributes_get(now, S_onload) = title_empty \o rel_stylesheet
                    /\ Attributes_get(now, S_href) = Attributes_get(was, S_href)
                    /\ unchanged_but(now, was, {S_rel, S_as, S_title, S_onload})

\* A run under SwapHigh that inlined a link which came with id and media and
\* still has both, next to the attributes the strategy set.
C14_Witness ==
    /\ pc = "done" /\ Len(outputs) = 1 /\ options.preload = "SwapHigh"
    /\ \E nid \in inlined :
          /\ Attributes_get(original_link(nid).attributes, S_media) = S_screen
          /\ Attributes_get(node_at(doc, nid).attributes, S_media) = S_screen
          /\ Attributes_get(node_at(doc, nid).attributes, S_id) = S_i
          /\ Attributes_get(node_at(doc, nid).attributes, S_title) = S_styles
          /\ Len(node_at(doc, nid).attributes.map) = 7

\* The link elements with that href anywhere in a document, those inside
\* noscript elements included.
links_with_href(d, h) ==
    LET inner == UNION { SeqToSet(all_nodes(d)[k].children) \cup SeqToSet(all_nodes(d)[k].raw) :
                           k \in 1..Len(all_nodes(d)) }
    IN { n \in SeqToSet(all_nodes(d)) \cup inner :
           n.local = S_link /\ Attributes_get(n.attributes, S_href) = h }

\* The stylesheet links of the given markup whose file is resolvable.
resolvable_links ==
    { n \in SeqToSet(all_nodes(parse_html(html))) :
        /\ n.local = S_link
        /\ to_ascii_lowercase(Attributes_get(n.attributes, S_rel)) = S_stylesheet
        /\ Attributes_get(n.attributes, S_href) /= Nil
        /\ ends_with(Attributes_get(n.attributes, S_href), S_css)
        /\ get_css_asset(platform, options, Attributes_get(n.attributes, S_href)).some }

\* A style element the run listed holds every rule of the text that has a
\* selector in use, with those selectors.
critical_rules_inlined(d, text) ==
    \E sid \in SeqToSet(styles) :
        /\ sid \in node_ids(d)
        /\ \A k \in 1..Len(text) :
              (text[k].type = "Style" /\ used_selectors(live_dom(dom, d), text[k]) /= <<>>) =>
                  \E j \in 1..Len(text_contents(node_at(d, sid))) :
                      LET rule == text_contents(node_at(d, sid))[j]
                      IN /\ rule.type = "Style"
                         /\ rule.declarations = text[k].declarations
                         /\ SeqToSet(used_selectors(live_dom(dom, d), text[k]))
                               \subseteq SeqToSet(rule.selectors)

\* The link carries the marks of the configured preload strategy.
follows_preload_strategy(nid) ==
    /\ nid \in node_ids(doc)
    /\ LET now == node_at(doc, nid).attributes
           was == original_link(nid).attributes
       IN CASE options.preload \in {"BodyPreload", "Swap"} -> Attributes_get(now, S_rel) = S_preload
            [] options.preload = "Body" -> nid \in { doc.body[k].nid : k \in 1..Len(doc.body) }
            [] options.preload = "Media" -> Attributes_get(now, S_media) = S_print
            [] options.preload = "SwapHigh" -> Attributes_get(now, S_title) = S_styles
            [] OTHER -> now = was

\* The literal matchers a caller lists in exclude_external, as the tests do
\* with "vendor.css" and "/styles.css".  CrittersOptions has no field to take
\* them, so a run is the same whatever the list.
ExcludeExternal == { <<"s">> \o S_css, <<"/", "n">> \o S_css }

\* A literal matcher matches an href it is equal to or a part of.
href_is_excluded(h) == \E m \in ExcludeExternal : contains(h, m)

\* C15: a stylesheet link whose href matches an exclude_external matcher and
\* whose file is resolvable leaves no link with that href anywhere in the
\* output, under every preload strategy, while the critical rules of its
\* stylesheet are inlined in a style element; a resolvable link that matches
\* no matcher follows the preload strategy.
C15_ExcludedLinksRemoved ==
    (pc = "done" /\ Len(outputs) = 1 /\ options.external) =>
        \A n \in resolvable_links :
            LET h == Attributes_get(n.attributes, S_href)
            IN IF href_is_excluded(h)
               THEN /\ links_with_href(doc, h) = {}
                    /\ links_with_href(outputs[1], h) = {}
                    /\ critical_rules_inlined(premerge,
                           StyleSheet_parse(get_css_asset(platform, options, h).value))
               ELSE follows_preload_strategy(n.nid)

\* C16: process does not abort: whatever goes wrong with an asset, a
\* stylesheet, a selector or a missing head or body, the run goes on to
\* serialise the document.
C16_ProcessReturnsOk == pc /= "aborted"

\* C17: when process_style_el comes to a style element whose text does not
\* parse, it leaves the document as it is and the run goes on with the next
\* style element; every other style element gets its text reduced, and the
\* run ends having gone through all of them.
C17_ParseFailureSkipped ==
    /\ [][(pc = "process" /\ cursor <= Len(styles) /\ doc.has_body) =>
            LET sid == styles[cursor]
                text == text_contents(node_at(doc, sid))
            IN /\ pc' = "process"
               /\ cursor' = cursor + 1
               /\ IF parse_fails(text) THEN doc' = doc
                  ELSE text_contents(node_at(doc', sid))
                         = process_style(options, live_dom(dom, doc), text).css]_vars
    /\ [](pc = "done" => cursor = Len(styles) + 1)

\* A run that skipped a style element whose text does not parse, after
\* reducing one and before reducing another.
C17_Witness ==
    /\ pc = "done" /\ Len(outputs) = 1 /\ ~options.merge_stylesheets
    /\ Len(styles) >= 3
    /\ styles[1] \in node_ids(parse_html(html))
    /\ text_contents(node_at(doc, styles[1])) /= text_contents(node_at(parse_html(html), styles[1]))
    /\ parse_fails(text_contents(node_at(doc, styles[2])))
    /\ text_contents(node_at(doc, styles[2])) = text_contents(node_at(parse_html(html), styles[2]))
    /\ only_critical(text_contents(node_at(doc, styles[3])))
    /\ text_contents(node_at(doc, styles[3])) /= SheetA
    /\ text_contents(node_at(doc, styles[3])) /= SheetB

\* The texts of the listed style elements, in the order of the list.
listed_texts == [k \in 1..Len(styles) |-> text_contents(node_at(doc, styles[k]))]

\* The texts of the style elements of the given markup, in document order.
inline_sources ==
    LET found == SelectSeq(all_nodes(parse_html(html)), LAMBDA n : n.local = S_style)
    IN [k \in 1..Len(found) |-> text_contents(found[k])]

\* The stylesheets of the resolvable links of the given markup, in the
\* document order of the links.
external_sources ==
    LET found == SelectSeq(all_nodes(parse_html(html)), LAMBDA n : n \in resolvable_links)
    IN [k \in 1..Len(found) |->
          get_css_asset(platform, options, Attributes_get(found[k].attributes, S_href)).value]

\* The distinct entries of additional_stylesheets in increasing order, and the
\* stylesheets of those that are found.
additional_sources ==
    LET entries == SeqToSet(options.additional_stylesheets)
        sorted == CHOOSE e \in [1..Cardinality(entries) -> entries] :
                     \A i, j \in 1..Cardinality(entries) : i < j => str_less(e[i], e[j])
        found == SelectSeq(sorted, LAMBDA h : get_css_asset(platform, options, h).some)
    IN [k \in 1..Len(found) |-> get_css_asset(platform, options, found[k]).value]

\* C18: the style elements of a run are listed, and reduced one after the
\* other in the order of the list, as: the style elements the markup came
\* with in document order, then those created for the external links in the
\* document order of the links, then those of the additional stylesheets in
\* sorted order without duplicates; no style element is listed twice, and a
\* step of the reduction changes the text of the one element it is at.
C18_ReductionOrder ==
    /\ []((pc = "process" /\ cursor = 1) =>
            /\ listed_texts =
                 (IF options.reduce_inline_styles THEN inline_sources ELSE <<>>)
                 \o (IF options.external /\ html.has_body THEN external_sources ELSE <<>>)
                 \o additional_sources
            /\ \A i, j \in 1..Len(styles) : i /= j => styles[i] /= styles[j])
    /\ [][(pc = "process" /\ cursor <= Len(styles) /\ pc' = "process") =>
            /\ cursor' = cursor + 1
            /\ styles' = styles
            /\ \A k \in 1..Len(styles) :
                  k /= cursor =>
                      text_contents(node_at(doc', styles[k])) = text_contents(node_at(doc, styles[k]))]_vars

\* A run that listed an inline style, the style of a link and the styles of
\* two additional stylesheets given as three entries, and reduced them all.
C18_Witness ==
    /\ pc = "done" /\ Len(outputs) = 1
    /\ Len(styles) = 4 /\ cursor = 5
    /\ options.additional_stylesheets =
           << <<"/", "s">> \o S_css, <<"/", "b">> \o S_css, <<"/", "s">> \o S_css >>
    /\ Cardinality(inlined) = 1
    /\ styles[1] \in node_ids(parse_html(html))
    /\ \A k \in 1..3 : styles[k] < styles[k + 1]

\* The place in the file system an href names: the base path, then the href
\* without the public path, ".." leading to the parent directory.
href_location(opts, h) ==
    location(Path_join(Cwd, Path_join(Path_new(opts.path), Path_new(normalized_path(opts, h)))))

\* The href cannot be resolved to a stylesheet: it does not end in .css, is
\* remote, names a place outside the base path, or names no readable file.
unresolvable(opts, h) ==
    \/ h = Nil
    \/ ~ends_with(h, S_css)
    \/ starts_with(h, S_http) \/ starts_with(h, S_https) \/ starts_with(h, <<"/", "/">>)
    \/ ~href_location(opts, h).some
    \/ ~within_base(platform, opts, href_location(opts, h).value)
    \/ ~\E f \in Files : f.at = href_location(opts, h).value

\* The stylesheet links of the given markup.
stylesheet_links ==
    { n \in SeqToSet(all_nodes(parse_html(html))) :
        n.local = S_link
        /\ to_ascii_lowercase(Attributes_get(n.attributes, S_rel)) = S_stylesheet }

\* C19: a stylesheet link whose href cannot be resolved is in the output as
\* it was, with the same attributes and at the same place in head, and no
\* style element was inserted before it (a style standing there is the one
\* of the resolved link before it, which was moved or removed); the links
\* that can be resolved are inlined all the same.
C19_UnresolvedLinksUntouched ==
    (pc = "done" /\ Len(outputs) = 1 /\ options.external /\ html.has_body) =>
        \A n \in stylesheet_links :
            IF unresolvable(options, Attributes_get(n.attributes, S_href))
            THEN /\ n.nid \in node_ids(doc)
                 /\ node_at(doc, n.nid).attributes = n.attributes
                 /\ n.nid \in { doc.head[k].nid : k \in 1..Len(doc.head) }
                 /\ \A other \in { doc.head[k].nid : k \in 1..Len(doc.head) }
                                   \cap node_ids(parse_html(html)) :
                       index_of(parse_html(html), other) < index_of(parse_html(html), n.nid)
                           <=> index_of(doc, other) < index_of(doc, n.nid)
                 /\ LET before == node_before(premerge, n.nid)
                        was    == node_before(parse_html(html), n.nid)
                    IN (before.local = S_style /\ before.nid \notin node_ids(parse_html(html)))
                           => /\ was \in stylesheet_links
                              /\ ~unresolvable(options, Attributes_get(was.attributes, S_href))
                              /\ index_of(premerge, was.nid) \notin 1..index_of(premerge, n.nid)
            ELSE n.nid \in inlined \/ n.nid \notin node_ids(doc)

\* The number of hashes on the stack of pushed hashes that fall on a slot,
\* a hash counting twice when both its keys are the slot.
pushed_on(b, slot) ==
    Cardinality({ k \in 1..Len(b.pushed_hashes) : hash1(b.pushed_hashes[k]) = slot })
    + Cardinality({ k \in 1..Len(b.pushed_hashes) : hash2(b.pushed_hashes[k]) = slot })

\* The slots a filter or its stack of pushed hashes touch.
slots_of(b) ==
    DOMAIN b.filter
    \cup { hash1(b.pushed_hashes[k]) : k \in 1..Len(b.pushed_hashes) }
    \cup { hash2(b.pushed_hashes[k]) : k \in 1..Len(b.pushed_hashes) }

\* C20 as stated: once every push is undone by a pop, the filter is a fresh one.
C20_BalancedIsZero ==
    (pc \in {"bloom", "bloom_push", "bloom_pop"} /\ bloom.elements = <<>>)
        => bloom.filter = BloomFilter_new

\* C20: every counter is either the number of pushed hashes on its slot or
\* stuck at COUNTER_MAX, which it is once that number reached COUNTER_MAX; so
\* after a balanced sequence every counter is zero or stuck at COUNTER_MAX,
\* and the stack of hashes is empty. A counter gets to COUNTER_MAX only by
\* a push whose insertions carry it there.
C20_CountersZeroOrStuck ==
    /\ [](pc \in BloomOps =>
            /\ \A slot \in slots_of(bloom) :
                  /\ counter(bloom.filter, slot) \in {pushed_on(bloom, slot), COUNTER_MAX}
                  /\ pushed_on(bloom, slot) >= COUNTER_MAX
                         => counter(bloom.filter, slot) = COUNTER_MAX
            /\ bloom.elements = <<>> =>
                  /\ bloom.pushed_hashes = <<>>
                  /\ \A slot \in DOMAIN bloom.filter : bloom.filter[slot] = COUNTER_MAX)
    /\ [][pc' \in {"bloom_push", "bloom_pop"} =>
            \A slot \in DOMAIN bloom'.filter :
                (bloom'.filter[slot] = COUNTER_MAX /\ counter(bloom.filter, slot) /= COUNTER_MAX)
                    => /\ Len(bloom'.elements) = Len(bloom.elements) + 1
                       /\ counter(bloom.filter, slot)
                            + pushed_on(bloom', slot) - pushed_on(bloom, slot) >= COUNTER_MAX]_vars

\* A chain was pushed until counters stuck and every element was popped again,
\* counters of the chain's own tag being stuck and others back at zero.
C20_Witness ==
    /\ pc = "bloom_pop" /\ bloom.elements = <<>> /\ Len(dom) = BodyId + MaxChain
    /\ counter(bloom.filter, hash1(get_hash(dom[Len(dom)].local))) = COUNTER_MAX
    /\ counter(bloom.filter, hash1(get_hash(S_body))) = 0

\* C21: class_list is the whitespace-split class attribute of the element,
\* and is empty when the element has no class attribute.
C21_ClassListFollowsClass ==
    pc = "attrs" =>
        attrs.class_list = IF Attributes_contains(attrs, S_class)
                           THEN split_whitespace(Attributes_get(attrs, S_class))
                           ELSE <<>>

\* C27: the keys of the map come in the order in which they were first
\* inserted, whatever was inserted again or removed since.
C27_InsertionOrdered ==
    pc = "attrs" => Attributes_keys(attrs) = first_inserted

\* C28: id() gives a value for every location, no operation overflowing,
\* and different locations get different ids, in either implementation.
C28_IdInjective ==
    /\ pc /= "aborted"
    /\ pc = "pair_done" =>
          /\ ~StyleRuleExt_id_szudzik(loc_a).overflow
          /\ ~StyleRuleExt_id_szudzik(loc_b).overflow
    /\ pc \in {"id_done", "pair_done"} =>
          /\ id_a.some /\ id_b.some
          /\ loc_a /= loc_b => id_a.value /= id_b.value

RECURSIVE sum_num_hashes(_)
\* The sum of num_hashes over the frames.
sum_num_hashes(frames) ==
    IF frames = <<>> THEN 0 ELSE Head(frames).num_hashes + sum_num_hashes(Tail(frames))

\* The relevant hashes of an element, from its name and attributes: local
\* name, namespace, id if it has one, each class, and each attribute name but
\* class, id and style.
relevant_hashes(d, e) ==
    LET a == d[e].attributes
        classes == IF Attributes_contains(a, S_class)
                   THEN split_whitespace(Attributes_get(a, S_class)) ELSE <<>>
        names == SelectSeq(Attributes_keys(a), LAMBDA n : n \notin {S_class, S_id, S_style})
    IN <<get_hash(d[e].local), get_hash(NamespaceUrl(d[e].ns))>>
       \o (IF Attributes_contains(a, S_id) THEN <<get_hash(Attributes_get(a, S_id))>> ELSE <<>>)
       \o [k \in 1..Len(classes) |-> get_hash(classes[k])]
       \o [k \in 1..Len(names) |-> get_hash(names[k])]

\* What the counter of a slot is after delta more insertions.
counter_after(old, delta) ==
    IF old = COUNTER_MAX \/ old + delta >= COUNTER_MAX THEN COUNTER_MAX ELSE old + delta

\* C23: the stack of pushed hashes is as long as the frames' counts add up
\* to; a push adds one frame, for the element pushed, counting its relevant
\* hashes, and inserts each of them once; a pop removes the top frame and as
\* many hashes as it counts; a pop on an empty stack changes nothing.
C23_FramesAccountForHashes ==
    /\ [](pc \in BloomOps => Len(bloom.pushed_hashes) = sum_num_hashes(bloom.elements))
    /\ [][pc' \in {"bloom_push", "bloom_pop"} =>
            LET n == Len(bloom.elements)
                m == Len(bloom'.elements)
            IN /\ m = IF pc' = "bloom_push" THEN n + 1 ELSE IF n = 0 THEN 0 ELSE n - 1
               /\ m = n => bloom' = bloom
               /\ m = n + 1 =>
                    LET top == bloom'.elements[m]
                        hashes == relevant_hashes(dom, top.element)
                    IN /\ bloom'.elements = Append(bloom.elements, top)
                       /\ top.num_hashes = Len(hashes)
                       /\ bloom'.pushed_hashes = bloom.pushed_hashes \o hashes
                       /\ \A slot \in slots_of(bloom') :
                             counter(bloom'.filter, slot) =
                                 counter_after(counter(bloom.filter, slot),
                                               pushed_on(bloom', slot) - pushed_on(bloom, slot))
               /\ m = n - 1 =>
                    /\ bloom'.elements = SubSeq(bloom.elements, 1, m)
                    /\ bloom'.pushed_hashes =
                          SubSeq(bloom.pushed_hashes, 1,
                                 Len(bloom.pushed_hashes) - bloom.elements[n].num_hashes)
                    /\ \A slot \in slots_of(bloom) :
                          counter(bloom'.filter, slot) =
                              IF counter(bloom.filter, slot) = COUNTER_MAX THEN COUNTER_MAX
                              ELSE counter(bloom.filter, slot)
                                     - (pushed_on(bloom, slot) - pushed_on(bloom', slot))]_vars

\* The elements of the frames of a StyleBloom, bottom first.
frame_elements(b) == [k \in 1..Len(b.elements) |-> b.elements[k].element]

\* The ancestors of an element from the document's root element down to its
\* parent.
ancestors_from_root(d, e) == Reverse(ancestors(d, e))

\* C24: no assertion fails; the depth stacked with an element is the number
\* of its ancestors, and the frames up to that depth, which are the frames
\* left when the element at the top of the stack is tested, are its
\* ancestors from the root down; after rebuild the frames are root's
\* ancestors without root; a step of the loop leaves the tested element's
\* ancestors and the element itself in the frames.
C24_FramesAreAncestors ==
    /\ [](pc \in {"calc_loop", "calc_done"} =>
            /\ ~panicked
            /\ \A k \in 1..Len(stack) :
                  stack[k][2] = Len(ancestors(dom, stack[k][1]))
            /\ stack /= <<>> =>
                  LET el == stack[Len(stack)][1]
                      depth == stack[Len(stack)][2]
                  IN /\ depth <= Len(bloom.elements)
                     /\ SubSeq(frame_elements(bloom), 1, depth) = ancestors_from_root(dom, el)
            /\ (stack /= <<>> /\ stack[1][1] = root) =>
                  frame_elements(bloom) = ancestors_from_root(dom, root))
    /\ [][(pc = "calc_loop" /\ stack /= <<>>) =>
            LET el == stack[Len(stack)][1]
            IN frame_elements(bloom') = ancestors_from_root(dom, el) \o <<el>>]_vars

\* The loop has come back up from a subtree: the element to test next lies
\* less deep than the frames reach; the walk started below the root element.
C24_Witness ==
    /\ pc = "calc_loop" /\ stack /= <<>> /\ ~panicked
    /\ stack[Len(stack)][2] < Len(bloom.elements)
    /\ stack[Len(stack)][2] >= 2
    /\ root /= HtmlId

\* The rules of a bucket map, all buckets one after the other.
bucket_rules(buckets) == UNION { SeqToSet(buckets[k]) : k \in DOMAIN buckets }

RECURSIVE count_in_buckets(_, _)
\* How many times a rule is held in the buckets of a map.
count_in_buckets(buckets, rule) ==
    IF DOMAIN buckets = {} THEN 0
    ELSE LET k == CHOOSE key \in DOMAIN buckets : TRUE
         IN Len(SelectSeq(buckets[k], LAMBDA r : r = rule))
            + count_in_buckets([j \in DOMAIN buckets \ {k} |-> buckets[j]], rule)

\* How many times a rule is held in a rule set.
count_held(rs, rule) ==
    count_in_buckets(rs.id_rules, rule) + count_in_buckets(rs.class_rules, rule)
    + count_in_buckets(rs.tag_rules, rule)
    + Len(SelectSeq(rs.universal_rules, LAMBDA r : r = rule))

RECURSIVE bucket_sizes(_)
\* The number of rules in the buckets of a map.
bucket_sizes(buckets) ==
    IF DOMAIN buckets = {} THEN 0
    ELSE LET k == CHOOSE key \in DOMAIN buckets : TRUE
         IN Len(buckets[k]) + bucket_sizes([j \in DOMAIN buckets \ {k} |-> buckets[j]])

\* The bucket the preference id > class > tag > universal gives a selector,
\* from the simple selectors of its rightmost compound.
preferred_bucket(selector) ==
    LET comps == SeqToSet(Selector_iter(selector))
    IN IF \E c \in comps : c.type = "ID" THEN "Id"
       ELSE IF \E c \in comps : c.type = "Class" THEN "Class"
       ELSE IF \E c \in comps : c.type = "LocalName" THEN "Tag"
       ELSE "Universal"

\* The bucket kind a rule set holds a rule in (a rule is held once).
held_in(rs, rule) ==
    IF count_in_buckets(rs.id_rules, rule) > 0 THEN "Id"
    ELSE IF count_in_buckets(rs.class_rules, rule) > 0 THEN "Class"
    ELSE IF count_in_buckets(rs.tag_rules, rule) > 0 THEN "Tag"
    ELSE "Universal"

\* Every rule is held exactly once, and rule_count is the number of rules held.
C25_OneBucketAndCount ==
    pc \in {"calc_loop", "calc_done"} =>
        /\ \A k \in 1..Len(selectors) : count_held(rule_set, Rule_new(selectors[k])) = 1
        /\ rule_set.rule_count = bucket_sizes(rule_set.id_rules)
                                   + bucket_sizes(rule_set.class_rules)
                                   + bucket_sizes(rule_set.tag_rules)
                                   + Len(rule_set.universal_rules)

\* C25: every rule is in exactly one bucket, the one the preference id >
\* class > tag > universal gives its rightmost compound, and rule_count is the
\* number of rules held.
C25_BucketByPreference ==
    /\ C25_OneBucketAndCount
    /\ pc \in {"calc_loop", "calc_done"} =>
          \A k \in 1..Len(selectors) :
              held_in(rule_set, Rule_new(selectors[k])) = preferred_bucket(selectors[k])

\* C26: a rule whose selector matches an element is among the element's
\* potential rules.
C26_IndexHidesNoMatch ==
    pc \in {"calc_loop", "calc_done"} =>
        \A e \in Nodes(dom), k \in 1..Len(selectors) :
            Selector_matches(dom, selectors[k], e)
                => Rule_new(selectors[k]) \in SeqToSet(get_potential_rules(rule_set, dom, e))

\* C29: a call of inline_external_stylesheet that gives no style element
\* leaves the document as it was.
C29_NoStyleNoChange ==
    [][(pc = "links" /\ links /= <<>> /\ pc' = "links" /\ styles' = styles)
          => doc' = doc]_vars

\* No two located paths name the same file.
distinct_files == \A i, j \in DOMAIN files : files[i] = files[j] => i = j

\* The text a file had when process_dir began.
original_text(f) == OriginalText(f)

\* Reading, processing or writing the file fails.
file_fails(f) ==
    \/ ~disk[f].readable
    \/ ~disk[f].writable
    \/ disk[f].room < MaxBlocks
    \/ disk[f].outcome /= "ok"

\* C22: process_dir returns Ok; a file whose reading, processing or writing
\* failed has the content it had, and every other file was processed and
\* written.
C22_PerFileErrorsSkipped ==
    (pc = "dir_done" /\ distinct_files) =>
        /\ dir_result = "ok"
        /\ \A i \in DOMAIN files :
              IF file_fails(files[i])
              THEN disk[files[i]].text = original_text(files[i])
              ELSE /\ task[i] = "done"
                   /\ disk[files[i]].text = process_text(original_text(files[i]))

\* C30: when no file fails, every located path was read, processed and
\* written once, no file was written for two paths, and every file holds
\* process of its original text.
C30_EachFileOnce ==
    (pc = "dir_done" /\ \A i \in DOMAIN files : ~file_fails(files[i])) =>
        /\ \A i \in DOMAIN files :
              /\ task[i] = "done"
              /\ Len(SelectSeq(written, LAMBDA w : w = i)) = 1
              /\ disk[files[i]].text = process_text(original_text(files[i]))
        /\ \A k, l \in DOMAIN written :
              files[written[k]] = files[written[l]] => k = l

====
